---------------------------- MODULE Spec2Model ----------------------------
(***************************************************************************)
(* The text-authenticity engine of HackStreak / PaperFlow.                 *)
(*                                                                         *)
(*   EnhancedVerificationService  (backend_python/groq_httpx_ultra.py)     *)
(*   PaperVerificationService     (backend_python/services/                *)
(*                                 paper_verification.py)                  *)
(*                                                                         *)
(* Texts and provider replies are character strings.  The regular          *)
(* expressions of the source are written as alternatives of items (a       *)
(* literal, or a character class repeated lo..hi times) and matched by a   *)
(* greedy, backtracking matcher, so that re.findall, re.search and the     *)
(* substring tests of the source are computed on the characters.           *)
(***************************************************************************)
EXTENDS Integers, Sequences, FiniteSets, TLC

(***************************************************************************)
(* Bounds of the model.                                                    *)
(***************************************************************************)
\* number of matches of one pattern added to a text that is compared with
\* the text without them
MaxExtraMatches == 2
\* the longest list of sections of a generation request
MaxSections == 2
\* how often the clock of the rate limiter advances
MaxTicks == 2
\* how many calls the rate limiter serves
MaxServed == 7
\* number of vocabulary phrases in the hand-written part of a text
MaxPhrases == 2
\* number of digits of the number a provider reply carries after the label
MaxDigits == 3

(***************************************************************************)
(* Strings.                                                                *)
(***************************************************************************)
Digits == {"0", "1", "2", "3", "4", "5", "6", "7", "8", "9"}
LowerLetters == {"a", "b", "c", "d", "e", "f", "g", "h", "i", "j", "k", "l", "m",
                 "n", "o", "p", "q", "r", "s", "t", "u", "v", "w", "x", "y", "z"}
UpperLetters == {"A", "B", "C", "D", "E", "F", "G", "H", "I", "J", "K", "L", "M",
                 "N", "O", "P", "Q", "R", "S", "T", "U", "V", "W", "X", "Y", "Z"}
\* \w, \s and "." of Python's re (the texts of the model are ASCII, one line)
WordChars == Digits \cup LowerLetters \cup UpperLetters \cup {"_"}
SpaceChars == {" ", "\t", "\n", "\r"}
NewLine == {"\n"}
\* repetition without an upper limit
Unbounded == 1000 * 1000

CharAt(s, i) == SubSeq(s, i, i)
SetMin(S) == CHOOSE m \in S : \A n \in S : m <= n
SetMax(S) == CHOOSE m \in S : \A n \in S : m >= n
Max2(a, b) == IF a >= b THEN a ELSE b
Min2(a, b) == IF a <= b THEN a ELSE b

\* str.lower() of one character
LowerChar(ch) ==
  CASE ch = "A" -> "a" [] ch = "B" -> "b" [] ch = "C" -> "c" [] ch = "D" -> "d"
    [] ch = "E" -> "e" [] ch = "F" -> "f" [] ch = "G" -> "g" [] ch = "H" -> "h"
    [] ch = "I" -> "i" [] ch = "J" -> "j" [] ch = "K" -> "k" [] ch = "L" -> "l"
    [] ch = "M" -> "m" [] ch = "N" -> "n" [] ch = "O" -> "o" [] ch = "P" -> "p"
    [] ch = "Q" -> "q" [] ch = "R" -> "r" [] ch = "S" -> "s" [] ch = "T" -> "t"
    [] ch = "U" -> "u" [] ch = "V" -> "v" [] ch = "W" -> "w" [] ch = "X" -> "x"
    [] ch = "Y" -> "y" [] ch = "Z" -> "z" [] OTHER -> ch

RECURSIVE Lower(_)
\* str.lower(): halves the string, so the recursion is logarithmic in its length
Lower(s) ==
  IF Len(s) = 0 THEN ""
  ELSE IF Len(s) = 1 THEN LowerChar(s)
  ELSE LET h == Len(s) \div 2
       IN Lower(SubSeq(s, 1, h)) \o Lower(SubSeq(s, h + 1, Len(s)))

\* lit in s
Contains(s, lit) ==
  \E p \in 1..(Len(s) - Len(lit) + 1) : SubSeq(s, p, p + Len(lit) - 1) = lit

\* s.strip(): the substring between the first and the last non-space character
Strip(s) ==
  LET Between(ink) == IF ink = {} THEN "" ELSE SubSeq(s, SetMin(ink), SetMax(ink))
  IN Between({i \in 1..Len(s) : CharAt(s, i) \notin SpaceChars})

\* the positions at which a word of s.split() starts
WordStarts(s) ==
  {i \in 1..Len(s) : /\ CharAt(s, i) \notin SpaceChars
                     /\ (i = 1 \/ CharAt(s, i - 1) \in SpaceChars)}
\* the word of s that starts at position i
WordAt(s, i) ==
  LET ends == {j \in i..Len(s) : j = Len(s) \/ CharAt(s, j + 1) \in SpaceChars}
  IN SubSeq(s, i, SetMin(ends))

(***************************************************************************)
(* Regular expressions.  A pattern is a sequence of alternatives (tried in *)
(* order), an alternative a sequence of items: a group of literals         *)
(* (a|b|c, tried in order), a character class repeated lo..hi times        *)
(* (greedy), or the word boundary \b.                                      *)
(***************************************************************************)
A(strs) == [kind |-> "lit", lits |-> strs, c |-> {}, neg |-> FALSE, lo |-> 1, hi |-> 1]
L(str) == A(<<str>>)
C(set, lo, hi) == [kind |-> "class", lits |-> <<>>, c |-> set, neg |-> FALSE, lo |-> lo, hi |-> hi]
NotC(set, lo, hi) == [kind |-> "class", lits |-> <<>>, c |-> set, neg |-> TRUE, lo |-> lo, hi |-> hi]
B == [kind |-> "bound", lits |-> <<>>, c |-> {}, neg |-> FALSE, lo |-> 0, hi |-> 0]
\* ".": any character but a newline;  [\s\S]: any character
Dot(lo, hi) == NotC(NewLine, lo, hi)
AnyChar(lo, hi) == NotC({}, lo, hi)

InClass(it, ch) == IF it.neg THEN ch \notin it.c ELSE ch \in it.c
IsWordAt(s, i) == i >= 1 /\ i <= Len(s) /\ CharAt(s, i) \in WordChars
LitAt(lit, s, pos) ==
  /\ pos + Len(lit) - 1 <= Len(s)
  /\ SubSeq(s, pos, pos + Len(lit) - 1) = lit

\* how many characters of s from pos on are in the item's class, at most it.hi
Run(it, s, pos) ==
  LET lim == Min2(Len(s) - pos + 1, it.hi)
  IN SetMin({k \in 0..lim : k = lim \/ ~InClass(it, CharAt(s, pos + k))})

\* of the tries <<rank, position after the match>>, the position of the
\* successful one (position # 0) of the lowest, or of the highest, rank; 0 when
\* none succeeds
FirstOf(tries) ==
  LET good == {p \in tries : p[2] # 0}
  IN IF good = {} THEN 0
     ELSE (CHOOSE p \in good : \A q \in good : p[1] <= q[1])[2]
LastOf(tries) ==
  LET good == {p \in tries : p[2] # 0}
  IN IF good = {} THEN 0
     ELSE (CHOOSE p \in good : \A q \in good : p[1] >= q[1])[2]

RECURSIVE MatchSeq(_, _, _, _)
\* the position after the match of items k.. of an alternative at pos, 0 when
\* there is none: a group takes its first literal with which the rest matches,
\* a repetition the longest run with which the rest matches
MatchSeq(items, k, s, pos) ==
  IF k > Len(items) THEN pos
  ELSE CASE items[k].kind = "lit" ->
              FirstOf({<<i, MatchSeq(items, k + 1, s, pos + Len(items[k].lits[i]))>> :
                         i \in {j \in 1..Len(items[k].lits) :
                                  LitAt(items[k].lits[j], s, pos)}})
         [] items[k].kind = "bound" ->
              IF IsWordAt(s, pos - 1) # IsWordAt(s, pos)
              THEN MatchSeq(items, k + 1, s, pos)
              ELSE 0
         [] OTHER ->
              LastOf({<<n, MatchSeq(items, k + 1, s, pos + n)>> :
                        n \in items[k].lo..Run(items[k], s, pos)})

\* the position after the match of the pattern at pos, 0 when there is none
MatchAt(alts, s, pos) ==
  FirstOf({<<a, MatchSeq(alts[a], 1, s, pos)>> : a \in 1..Len(alts)})

\* re.search: the first position at which the pattern matches, 0 when none
Search(alts, s) ==
  LET First(starts) == IF starts = {} THEN 0 ELSE SetMin(starts)
  IN First({p \in 1..Len(s) : MatchAt(alts, s, p) # 0})

RECURSIVE Leftmost(_, _)
\* of the matches <<start, end>> at every position, those a scan from the left
\* takes: the first one, then the first one that starts at or after its end
Leftmost(hits, pos) ==
  LET Take(rest, h) == <<h>> \o Leftmost(rest, h[2])
      From(rest) ==
        IF rest = {} THEN <<>>
        ELSE Take(rest, CHOOSE x \in rest : \A y \in rest : x[1] <= y[1])
  IN From({h \in hits : h[1] >= pos})
\* the matches of re.findall / re.finditer as <<start, end>>, end exclusive (no
\* pattern of the source matches the empty string)
FindSpans(alts, s) ==
  Leftmost({h \in {<<p, MatchAt(alts, s, p)>> : p \in 1..Len(s)} : h[2] # 0}, 1)
Cut(s, spans) == [i \in 1..Len(spans) |-> SubSeq(s, spans[i][1], spans[i][2] - 1)]
\* the matched substrings, left to right
FindAll(alts, s) == Cut(s, FindSpans(alts, s))
\* the same under re.IGNORECASE, for a pattern written in lower case
FindAllI(alts, s) == Cut(s, FindSpans(alts, Lower(s)))
SearchI(alts, s) == Search(alts, Lower(s))

(***************************************************************************)
(* Texts.  A text is a hand-written part (body: vocabulary phrases, each   *)
(* a sentence ending ". ") followed by pad copies of a filler sentence     *)
(* that holds no keyword, citation or number of any pattern of the source, *)
(* so that the length thresholds of the source (100, 1000, 2000 words;     *)
(* 1000, 2000 characters) are reached with the characters of the body      *)
(* still scanned one by one.                                               *)
(***************************************************************************)
Vocabulary ==
  { "we saw 100% accuracy. ",
    "p < 0.0001 holds. ",
    "error was 94.7312% overall. ",
    "Smith et al. (2023) agree. ",
    "see personal communication. ",
    "Abstract introduction methods results discussion conclusion references. ",
    "in conclusion further research on significant findings has important implications. " }
Filler == "plain words go here again today. "
PadChoices == {0, 9, 200, 400}

RECURSIVE Concat(_)
Concat(ps) == IF ps = <<>> THEN "" ELSE Head(ps) \o Concat(Tail(ps))
Bodies ==
  {Concat(ps) : ps \in UNION {[1..n -> Vocabulary] : n \in 0..MaxPhrases}}
\* cut: whether str.strip() has taken the final space away
Texts == [body : Bodies, pad : PadChoices, cut : {0}]

\* len(text)
TextLen(t) == Len(t.body) + t.pad * Len(Filler) - t.cut
\* text.strip(): a text starts with a letter and ends with one space
StripText(t) == IF TextLen(t) = 0 THEN t ELSE [t EXCEPT !.cut = 1]
\* the characters that are scanned: the body and the first filler sentence
Sample(t) ==
  IF t.pad > 0 THEN t.body \o Filler ELSE SubSeq(t.body, 1, Len(t.body) - t.cut)
\* len(text.split()): the filler words are separated by single spaces
WordCount(t) ==
  Cardinality(WordStarts(t.body)) + t.pad * Cardinality(WordStarts(Filler))
\* the words of s.split(), each with the position at which it starts
Words(s) == {<<i, WordAt(s, i)>> : i \in WordStarts(s)}
\* how often the word w occurs in text.lower().split()
WordFreq(t, w) ==
  Cardinality({p \in Words(Lower(t.body)) : p[2] = w})
    + t.pad * Cardinality({p \in Words(Lower(Filler)) : p[2] = w})
\* the distinct words of text.lower().split(), each at its first occurrence
\* (the keys of the dict word_freq, which keeps the order of insertion)
FirstOccurrences(t) ==
  LET Firsts(ws) == {p \in ws : \A q \in ws : q[2] = p[2] => q[1] >= p[1]}
  IN Firsts(Words(Lower(Sample(t))))
\* the pieces between the separator characters, stripped, the blank ones
\* left out
Pieces(s, seps) ==
  LET piece(i) == Strip(SubSeq(s, i, SetMin({j \in i..Len(s) :
                                                j = Len(s) \/ CharAt(s, j + 1) \in seps})))
      InOrder(full) ==
        [k \in 1..Cardinality(full) |->
           (CHOOSE p \in full : Cardinality({q \in full : q[1] < p[1]}) = k - 1)[2]]
  IN InOrder({p \in {<<i, piece(i)>> :
                       i \in {j \in 1..Len(s) :
                                /\ CharAt(s, j) \notin seps
                                /\ (j = 1 \/ CharAt(s, j - 1) \in seps)}} :
               p[2] # ""})
\* the sentences of a text: every phrase of the body ends ". " and the filler
\* is one sentence, so they are the sentences of the body and pad times the
\* filler sentence
FillerSentence == Strip(SubSeq(Filler, 1, Len(Filler) - 2))
BodySentences(t, seps) == Pieces(t.body, seps)

(***************************************************************************)
(* Python values.                                                          *)
(***************************************************************************)
\* Optional[x]: None, or a value
None == <<>>
Some(v) == <<v>>
\* how a call ends: it returns a value, or it raises
Return(v) == [raised |-> FALSE, value |-> v]
Raise(e) == [raised |-> TRUE, value |-> e]

RECURSIVE StrToInt(_)
\* int() of a string of digits
StrToInt(ds) ==
  IF Len(ds) = 0 THEN 0
  ELSE 10 * StrToInt(SubSeq(ds, 1, Len(ds) - 1))
       + (CHOOSE d \in 0..9 : ToString(d) = CharAt(ds, Len(ds)))

\* int() of the quotient n / d, d > 0: truncation toward zero
TruncDiv(n, d) == IF n >= 0 THEN n \div d ELSE -((-n) \div d)

\* a variant of is_likely_fake with the threshold of the methodology follow-up
is_likely_fake_above_50(fake_probability) == fake_probability > 50
\* "is_likely_fake": fake_probability > 60, as _perform_local_analysis,
\* _combine_analyses, verify_paper and verify_paper_pdf all write it
is_likely_fake(fake_probability) == fake_probability > 60

(***************************************************************************)
(* The external provider.  One HTTP exchange ends in a transport           *)
(* exception, a timeout, or a response with a status and a body; a body is *)
(* JSON of the expected shape carrying a content string, JSON of the       *)
(* expected shape whose content is null, or anything else.                 *)
(***************************************************************************)
AIDigits == {"0", "1"}
NumStrs == UNION {{Concat(ds) : ds \in [1..n -> AIDigits]} : n \in 0..MaxDigits}
GroqContents ==
  {"AUTHENTICITY SCORE: " \o n \o " RED FLAGS: none" : n \in NumStrs}
    \cup {"", "  ", "The text looks authentic.", "SCORE: 90",
          "Authenticity score: 70 RED FLAGS: none",
          "AUTHENTICITY SCORE:50", "AUTHENTICITY SCORE: -5", "AUTHENTICITY SCORE: [90]",
          "I rate it. AUTHENTICITY SCORE:   15 AUTHENTICITY SCORE: 100"}
GroqOutcomes ==
  {[kind |-> k, status |-> 0, shape |-> "", content |-> ""] : k \in {"exception", "timeout"}}
    \cup {[kind |-> "response", status |-> st, shape |-> "other", content |-> ""] :
            st \in {200, 429, 500}}
    \cup {[kind |-> "response", status |-> 200, shape |-> "null_content", content |-> ""]}
    \cup {[kind |-> "response", status |-> 200, shape |-> "content", content |-> c] :
            c \in GroqContents}

(***************************************************************************)
(* GroqHttpxService.generate_content_fast                                  *)
(***************************************************************************)
\* the body of its try block: client.post, response.json(),
\* data["choices"][0]["message"]["content"].strip()
generate_content_fast_try(o) ==
  IF o.kind # "response" THEN Raise(o.kind)
  ELSE IF o.status = 200
       THEN CASE o.shape = "content" -> Return(Some(Strip(o.content)))
              [] o.shape = "null_content" -> Raise("AttributeError")
              [] OTHER -> Raise("KeyError")
       ELSE Return(None)
\* "except Exception as e: ... return None"; generate_content_fast_try is also
\* the variant of it that lets the exception through
generate_content_fast(o) ==
  LET r == generate_content_fast_try(o)
  IN IF r.raised THEN Return(None) ELSE r

(***************************************************************************)
(* EnhancedVerificationService: the pattern tables.  An entry is (regex,   *)
(* name, score, severity); cap says what re.findall returns for a match:   *)
(* the match (no group), the one group (the match without head characters  *)
(* at its start and tail characters at its end), or the pair of two groups *)
(* (the two words of the match).                                           *)
(***************************************************************************)
Whole == [kind |-> "whole", head |-> 0, tail |-> 0]
Group(head, tail) == [kind |-> "group", head |-> head, tail |-> tail]
Pair == [kind |-> "pair", head |-> 0, tail |-> 0]
Entry(pattern, name, score, severity, cap) ==
  [pattern |-> pattern, name |-> name, score |-> score, severity |-> severity,
   cap |-> cap]

Captured(cap, m) ==
  LET Halves(sp) == <<SubSeq(m, 1, sp - 1), SubSeq(m, sp + 1, Len(m))>>
  IN CASE cap.kind = "whole" -> m
       [] cap.kind = "group" -> SubSeq(m, cap.head + 1, Len(m) - cap.tail)
       [] OTHER -> Halves(SetMin({i \in 1..Len(m) : CharAt(m, i) = " "}))

statistical_patterns ==
  << Entry(<< <<C(Digits, 1, Unbounded), L("."), C(Digits, 4, Unbounded), L("%")>> >>,
           "Overly Precise Percentages", 25, "high", Whole),
     Entry(<< <<C(Digits, 1, Unbounded), L("."), C(Digits, 3, Unbounded), L("%")>> >>,
           "Suspiciously Precise Statistics", 20, "high", Whole),
     Entry(<< <<L("100% "), A(<<"accuracy", "success", "effectiveness", "correlation">>)>> >>,
           "Perfect Results Claims", 30, "high", Group(5, 0)),
     Entry(<< <<L("0% "), A(<<"error", "failure", "false">>)>> >>,
           "Zero Error Claims", 25, "high", Group(3, 0)),
     Entry(<< <<L("cohen"), Dot(1, 1), L("s d "), C({">", "="}, 1, 1), L(" "),
                C({"3", "4", "5", "6", "7", "8", "9"}, 1, 1), L("."),
                C(Digits, 1, Unbounded)>> >>,
           "Impossible Effect Sizes", 30, "high", Whole),
     Entry(<< <<L("r = 0.9"), C({"5", "6", "7", "8", "9"}, 1, 1)>> >>,
           "Perfect Correlations", 25, "high", Whole),
     Entry(<< <<L("p < 0.00"), C({"0"}, 1, Unbounded), L("1")>> >>,
           "Impossible P-values", 25, "high", Whole),
     Entry(<< <<A(<<"50000", "100000", "500000", "1000000">>), L(" "),
                A(<<"participants", "subjects", "samples">>)>> >>,
           "Unrealistic Sample Sizes", 20, "medium", Pair) >>

language_patterns ==
  << Entry(<< <<L("unprecedented")>>, <<L("groundbreaking")>>, <<L("revolutionary")>>,
              <<L("paradigm"), Dot(1, 1), L("shifting")>> >>,
           "Exaggerated Language", 15, "medium", Whole),
     Entry(<< <<A(<<"extraordinary", "remarkable", "exceptional", "outstanding">>),
                L(" results")>> >>,
           "Hyperbolic Results", 12, "medium", Group(0, 8)),
     Entry(<< <<A(<<"advanced", "sophisticated", "novel">>), L(" "),
                A(<<"methodology", "approach", "technique">>)>> >>,
           "Vague Methodology", 10, "low", Pair),
     Entry(<< <<A(<<"comprehensive", "extensive", "thorough">>), L(" analysis")>> >>,
           "Generic Analysis Claims", 8, "low", Group(0, 9)),
     Entry(<< <<A(<<"personal communication", "unpublished data", "internal report">>)>> >>,
           "Unverifiable Citations", 15, "medium", Whole),
     Entry(<< <<L("et al. (202"), C({"0", "1", "2", "3", "4"}, 1, 1), L(")")>> >>,
           "Recent Citation Pattern", -5, "positive", Whole) >>

academic_sections ==
  {"abstract", "introduction", "method", "result", "discussion", "conclusion",
   "reference"}

\* the three citation formats counted on the original text
citation_patterns(s) ==
  << Len(FindAll(<< <<L("["), C(Digits, 1, Unbounded), L("]")>> >>, s)),
     Len(FindAll(<< <<L("("), C(WordChars, 1, Unbounded), C({","}, 0, 1), L(" "),
                      C(Digits, 4, 4), L(")")>> >>, s)),
     Len(FindAll(<< <<C(WordChars, 1, Unbounded), L(" et al.")>> >>, s)) >>

RECURSIVE SumSeq(_)
SumSeq(q) == IF q = <<>> THEN 0 ELSE Head(q) + SumSeq(Tail(q))

\* "4. APPLY PATTERN DETECTION": the score added and the issues appended
PatternPass(text_lower) ==
  LET issue(entry, matches) ==
        [type |-> entry.name,
         description |-> <<"Found", Len(matches), "instances">>,
         severity |-> entry.severity,
         count |-> Len(matches),
         examples |-> [k \in 1..Min2(3, Len(matches)) |->
                         Captured(entry.cap, matches[k])]]
      Pass(hit) ==
        [score |-> SumSeq([k \in 1..Len(hit) |-> hit[k].score]),
         issues |-> [k \in 1..Len(hit) |->
                       issue(hit[k], FindAll(hit[k].pattern, text_lower))]]
  IN Pass(SelectSeq(statistical_patterns \o language_patterns,
                    LAMBDA entry : Search(entry.pattern, text_lower) # 0))

\* analyze_text_authenticity up to the call of the provider (steps 1 to 4)
analyze_before_ai(t) ==
  LET found_sections(text_lower) ==
        Cardinality({sec \in academic_sections : Contains(text_lower, sec)})
      max_citations(cites) == Max2(cites[1], Max2(cites[2], cites[3]))
      Steps(lacks, few, pass) ==
        [fake_score |-> (IF lacks THEN 15 ELSE 0) + (IF few THEN 12 ELSE 0) + pass.score,
         detected_issues |-> pass.issues,
         structural_issues |->
           (IF lacks THEN <<"Lacks proper academic structure">> ELSE <<>>)
             \o (IF few THEN <<"Insufficient or inconsistent citations">> ELSE <<>>)]
  IN Steps(found_sections(Lower(Sample(t))) < 3,
           max_citations(citation_patterns(Sample(t))) < 3 /\ TextLen(t) > 1000,
           PatternPass(Lower(Sample(t))))

\* _get_ai_analysis: r is how generate_content_fast ended
get_ai_analysis(r) ==
  IF r.raised THEN "AI analysis failed"
  ELSE IF r.value # None /\ r.value[1] # "" THEN r.value[1]
  ELSE "AI analysis unavailable"

\* _extract_ai_score: re.search(r'AUTHENTICITY SCORE:\s*(\d+)', .., re.IGNORECASE),
\* then 100 - int(group 1)
score_label == "authenticity score:"
extract_ai_score(ai_analysis) ==
  LET pat == << <<L(score_label), C(SpaceChars, 0, Unbounded), C(Digits, 1, Unbounded)>> >>
      \* group 1 of the match at p: the digits after the label and the spaces
      group(s, p) ==
        SubSeq(s,
               p + Len(score_label)
                 + Run(C(SpaceChars, 0, Unbounded), s, p + Len(score_label)),
               MatchAt(pat, s, p) - 1)
      Score(s, p) ==
        IF p = 0 THEN None
        ELSE Some(100 - StrToInt(group(s, p)))
      In(s) == Score(s, Search(pat, s))
  IN In(Lower(ai_analysis))

(***************************************************************************)
(* int(fake_score * 0.7 + ai_score * 0.3) in IEEE-754 double arithmetic.   *)
(* The literals are the doubles M7 / 2^53 and M3 / 2^54, a little below    *)
(* 0.7 and 0.3; each product and the sum are rounded to 53 bits, half to   *)
(* even.  When 7 * fake_score + 3 * ai_score is no multiple of 10 the      *)
(* rounding cannot reach an integer and int() truncates the exact value;   *)
(* when it is, the sum is the integer N = (7f + 3a) / 10 plus a rounding   *)
(* error, and int() gives N or the integer next to it toward zero.  The    *)
(* errors are computed from the low 12 bits of M7 and M3.                  *)
(***************************************************************************)
\* M7 % 4096 and M3 % 4096, M7 = 6305039478318694, M3 = 5404319552844595
LowBits7 == 1638
LowBits3 == 819
RECURSIVE Pow2(_)
Pow2(k) == IF k = 0 THEN 1 ELSE 2 * Pow2(k - 1)
Abs(n) == IF n < 0 THEN -n ELSE n
\* the number of j >= 0 with 10 * 2^j <= num
Bits(num) == Cardinality({j \in 0..13 : 10 * Pow2(j) <= num})
\* the signed error of rounding n * M to a multiple of 2^k, half to even, M
\* given by its low bits R
RoundErr(n, R, k) ==
  LET Signed(d) == IF n > 0 THEN d ELSE -d
      Err(m, r, unit) ==
        IF 2 * r < unit THEN -r
        ELSE IF 2 * r > unit THEN unit - r
        ELSE IF ((m * R) % (2 * unit)) \div unit = 0 THEN -r ELSE r
  IN IF n = 0 \/ k <= 0 THEN 0
     ELSE Signed(Err(Abs(n), (Abs(n) * R) % Pow2(k), Pow2(k)))
IntBlend(fake_score, ai_score) ==
  LET \* in units of 2^-54: the errors of the two products, and what the
      \* literals lack of 0.7 and 0.3
      dx == RoundErr(fake_score, LowBits7, Bits(7 * Abs(fake_score)))
      dy == RoundErr(ai_score, LowBits3, Max2(0, Bits(12 * Abs(ai_score)) - 1))
      ulp(N, E) == IF Abs(N) = Pow2(E) THEN Pow2(E + 1) ELSE Pow2(E + 2)
      Near(N, D, u) ==
        IF N > 0 THEN (IF -2 * D > u THEN N - 1 ELSE N)
        ELSE (IF 2 * D > u THEN N + 1 ELSE N)
      Rounded(N) ==
        Near(N, 2 * dx + dy - (4 * fake_score + ai_score) \div 5,
             ulp(N, Cardinality({j \in 0..13 : Pow2(j) <= Abs(N)}) - 1))
      Of(t) == IF t % 10 # 0 \/ t = 0 THEN TruncDiv(t, 10) ELSE Rounded(TruncDiv(t, 10))
  IN Of(7 * fake_score + 3 * ai_score)

generic_phrases_enhanced ==
  {"comprehensive analysis", "significant findings", "important implications",
   "further research", "in conclusion", "it is important to note"}

\* _analyze_content_quality
analyze_content_quality(t) ==
  LET \* count > len(words) * 0.02, a comparison the floating-point product
      \* decides as the exact one does for every n below 6000
      repetitive(n) ==
        IF n > 50
        THEN {p \in FirstOccurrences(t) : Len(p[2]) > 6 /\ 50 * WordFreq(t, p[2]) > n}
        ELSE {}
      InOrder(found) ==
        [k \in 1..Cardinality(found) |->
           (CHOOSE p \in found : Cardinality({q \in found : q[1] < p[1]}) = k - 1)[2]]
      generic_count(s) ==
        Cardinality({ph \in generic_phrases_enhanced : Contains(s, ph)})
      Quality(repetitive_words, generic) ==
        [issues |->
           (IF repetitive_words # <<>>
            THEN << [type |-> "Repetitive Language",
                     description |-> <<"Overuse of words",
                                       SubSeq(repetitive_words, 1,
                                              Min2(3, Len(repetitive_words)))>>,
                     severity |-> "medium",
                     count |-> Len(repetitive_words)] >>
            ELSE <<>>)
           \o (IF generic > 3
               THEN << [type |-> "Generic Academic Language",
                        description |-> <<"Overuse of generic phrases", generic>>,
                        severity |-> "low",
                        count |-> generic] >>
               ELSE <<>>),
         score |-> (IF repetitive_words # <<>> THEN 8 ELSE 0)
                   + (IF generic > 3 THEN 5 ELSE 0)]
  IN Quality(InOrder(repetitive(WordCount(t))), generic_count(Lower(Sample(t))))

\* a variant of length_adjusted that adjusts a second time
length_adjusted_twice(fake_probability, word_count) ==
  IF word_count < 100 THEN Max2(Max2(fake_probability - 10, 5) - 10, 5)
  ELSE IF word_count > 2000 THEN Min2(Min2(fake_probability + 5, 95) + 5, 95)
  ELSE fake_probability
\* a variant of length_adjusted that does not hold the result within 5..95
length_adjusted_unguarded(fake_probability, word_count) ==
  IF word_count < 100 THEN fake_probability - 10
  ELSE IF word_count > 2000 THEN fake_probability + 5
  ELSE fake_probability
\* "7. ADJUST FOR TEXT LENGTH", applied to the clamped probability
length_adjusted(fake_probability, word_count) ==
  IF word_count < 100 THEN Max2(fake_probability - 10, 5)
  ELSE IF word_count > 2000 THEN Min2(fake_probability + 5, 95)
  ELSE fake_probability
\* "fake_probability = min(95, max(5, fake_score))"
clamp_probability(fake_score) == Min2(95, Max2(5, fake_score))

\* steps 5 to 7 on the numbers: the provider's score blended in when there
\* is one, the quality score added, the clamp and the adjustment for length
final_probability(fake_score, ai_score, quality_score, word_count) ==
  length_adjusted(
    clamp_probability((IF ai_score # None THEN IntBlend(fake_score, ai_score[1])
                       ELSE fake_score) + quality_score),
    word_count)

\* analyze_text_authenticity from the provider's answer on (steps 5 to 7); w is
\* what analyze_before_ai left
analyze_after_ai(t, w, ai_analysis) ==
  LET Result(ai_score, quality_issues, fake_probability) ==
        [fake_probability |-> fake_probability,
         detected_issues |-> w.detected_issues \o quality_issues.issues,
         ai_analysis |-> ai_analysis,
         structural_issues |-> w.structural_issues,
         confidence_factors |->
           IF ai_score # None THEN << <<"AI analysis contributed", ai_score[1]>> >>
           ELSE <<>>,
         quality_score |-> 100 - fake_probability]
      Scored(ai_score, quality_issues) ==
        Result(ai_score, quality_issues,
               final_probability(w.fake_score, ai_score, quality_issues.score,
                                 WordCount(t)))
  IN Scored(extract_ai_score(ai_analysis), analyze_content_quality(t))

(***************************************************************************)
(* The endpoints /api/papers/verify and /api/papers/verify-pdf.  Display   *)
(* values that nothing reads (average sentence length, processing time,    *)
(* timestamps, the metadata block) are left out.                           *)
(***************************************************************************)
\* analyze_text_authenticity as a whole: o is how the provider's exchange ends
analyze_text_authenticity(t, w, o) ==
  analyze_after_ai(t, w, get_ai_analysis(generate_content_fast(o)))

\* any(word in issue["type"].lower() for issue in detected_issues)
AnyTypeHas(detected_issues, word) ==
  \E i \in 1..Len(detected_issues) : Contains(Lower(detected_issues[i].type), word)

\* the list "recommendations" of the verification result; the two endpoints
\* differ in the wording of the third rung
enhanced_recommendations(analysis_result, pdf) ==
  LET p == analysis_result.fake_probability
  IN << IF p > 80 THEN "High probability of fabricated content - manual review required"
        ELSE IF p > 60 THEN "Suspicious content detected - verify claims independently"
        ELSE IF p > 40
        THEN (IF pdf THEN "Some yconcerns identified - check statistical claims"
              ELSE "Some concerns identified - check statistical claims")
        ELSE IF p > 20 THEN "Content appears authentic with minor concerns"
        ELSE "Content appears highly authentic",
        IF AnyTypeHas(analysis_result.detected_issues, "stat")
        THEN "Verify all statistical claims independently"
        ELSE "Statistical reporting appears normal",
        IF AnyTypeHas(analysis_result.detected_issues, "citation")
        THEN "Check all citations and references"
        ELSE "Citation patterns appear normal",
        IF p > 50 THEN "Review methodology for feasibility"
        ELSE "Methodology appears reasonable" >>

\* the dictionary verification_result, which verify_paper (pdf = FALSE) and
\* verify_paper_pdf (pdf = TRUE) build alike
verification_result(t, analysis_result, pdf) ==
  LET p == analysis_result.fake_probability
      word_count == WordCount(t)
      sentence_count == Len(BodySentences(t, {"."})) + t.pad
  IN [fake_probability |-> p,
      is_likely_fake |-> is_likely_fake(p),
      confidence |-> IF p > 80 \/ p < 20 THEN "High" ELSE "Medium",
      detected_issues |-> analysis_result.detected_issues,
      ai_analysis |-> analysis_result.ai_analysis,
      structural_issues |-> analysis_result.structural_issues,
      quality_assessment |->
        [authenticity_score |-> analysis_result.quality_score,
         confidence_factors |-> analysis_result.confidence_factors,
         overall_quality |-> IF p > 70 THEN "Poor" ELSE IF p > 40 THEN "Fair" ELSE "Good"],
      structure_analysis |->
        IF pdf
        THEN [word_count |-> word_count,
              sentence_count |-> sentence_count,
              has_proper_structure |-> word_count > 100 /\ sentence_count > 5,
              extracted_text_length |-> TextLen(t)]
        ELSE [word_count |-> word_count,
              sentence_count |-> sentence_count,
              has_proper_structure |-> word_count > 100 /\ sentence_count > 5],
      recommendations |-> enhanced_recommendations(analysis_result, pdf),
      analysis_method |-> IF pdf THEN "enhanced_pdf_extraction_plus_ai_analysis"
                          ELSE "enhanced_ai_plus_pattern_detection"]

\* what an endpoint answers: a status and a body
Response(status, body) == [status |-> status, body |-> body]
HTTPException(status, detail) == Response(status, [detail |-> detail])

\* verify_paper from the provider's answer on
verify_paper(t, w, o) ==
  Response(200, verification_result(t, analyze_text_authenticity(t, w, o), FALSE))

\* the uploads of verify-pdf: a file name, and what PyPDF2 makes of the bytes,
\* an exception or the text of the pages
FileNames == {"paper.pdf", "PAPER.PDF", "paper.txt", "pdf"}
EndsWith(s, suffix) ==
  Len(s) >= Len(suffix) /\ SubSeq(s, Len(s) - Len(suffix) + 1, Len(s)) = suffix
\* PDFTextExtractor.extract_text_from_pdf: the text of the pages, stripped
extract_text_from_pdf(pdf) ==
  IF pdf.readable THEN Return(StripText(pdf.pages))
  ELSE Raise(HTTPException(400, "Failed to extract text from PDF"))
\* verify_paper_pdf up to the analysis: the text to analyse, or the refusal
verify_paper_pdf_extract(filename, pdf) ==
  IF ~EndsWith(Lower(filename), ".pdf")
  THEN Raise(HTTPException(400, "File must be a PDF"))
  ELSE LET extracted_text == extract_text_from_pdf(pdf)
       IN IF extracted_text.raised THEN extracted_text
          ELSE IF TextLen(StripText(extracted_text.value)) < 50
               THEN Raise(HTTPException(400, "Could not extract sufficient text from PDF"))
               ELSE extracted_text
\* verify_paper_pdf from the provider's answer on; t is the extracted text
verify_paper_pdf(t, w, o) ==
  Response(200, verification_result(t, analyze_text_authenticity(t, w, o), TRUE))

(***************************************************************************)
(* PaperVerificationService: the local analyses.  Its patterns are         *)
(* compiled with re.IGNORECASE and written here in lower case.             *)
(***************************************************************************)
Many == C(Digits, 1, Unbounded)
Spaces(lo) == C(SpaceChars, lo, Unbounded)
Rest == Dot(0, Unbounded)
SentenceEnds == {".", "!", "?"}

fake_patterns ==
  << [key |-> "fabricated_data",
      pattern |-> << <<Many, L("."), C(Digits, 4, Unbounded), L("%")>>,
                     <<C(Digits, 4, Unbounded), L("."), Many>>,
                     <<Many, L("."), C(Digits, 8, Unbounded)>> >>,
      severity |-> "high", category |-> "Data Fabrication"],
     [key |-> "impossible_results",
      pattern |-> << <<A(<<"100% accuracy", "0% error rate", "perfect correlation",
                           "100% success rate", "zero failures", "flawless results">>)>> >>,
      severity |-> "high", category |-> "Result Fabrication"],
     [key |-> "vague_citations",
      pattern |-> << <<A(<<"personal communication", "unpublished data", "internal report",
                           "confidential study", "private correspondence">>)>> >>,
      severity |-> "medium", category |-> "Citation Issues"],
     [key |-> "unrealistic_timeline",
      pattern |-> << <<L("conducted"), Rest, L("same day")>>,
                     <<L("completed"), Rest, L("24 hours")>>,
                     <<A(<<"instant results", "immediate analysis", "overnight study">>)>> >>,
      severity |-> "medium", category |-> "Timeline Issues"],
     [key |-> "suspicious_statistics",
      pattern |-> << <<L("p"), Spaces(0), L("="), Spaces(0), L("0.0000")>>,
                     <<L("p"), Spaces(0), L("<"), Spaces(0), L("0.0001"), Rest,
                       L("p"), Spaces(0), L("<"), Spaces(0), L("0.0001")>>,
                     <<L("all"), Rest, L("significant")>>,
                     <<L("every"), Rest, L("significant")>> >>,
      severity |-> "high", category |-> "Statistical Issues"] >>

Prefix(str, n) == SubSeq(str, 1, Min2(n, Len(str)))
\* the sequence 1, .., n
Indices(n) == [k \in 1..n |-> k]

RECURSIVE Flatten(_)
\* the concatenation of a sequence of sequences
Flatten(q) == IF q = <<>> THEN <<>> ELSE Head(q) \o Flatten(Tail(q))

\* _detect_fake_content_patterns
detect_fake_content_patterns(t) ==
  LET issue(entry, matches) ==
        [type |-> entry.key,
         severity |-> entry.severity,
         category |-> entry.category,
         count |-> Len(matches),
         examples |-> [k \in 1..Min2(3, Len(matches)) |-> Prefix(matches[k], 100)]]
      suspicious(entry, sentences, at) ==
        [k \in 1..Len(at) |->
           [sentence_index |-> at[k],
            content |-> Prefix(sentences[at[k]], 200),
            issue |-> entry.category,
            severity |-> entry.severity]]
      content(entry, sentences) ==
        suspicious(entry, sentences,
                   SelectSeq(Indices(Len(sentences)),
                             LAMBDA k : SearchI(entry.pattern, sentences[k]) # 0))
      \* hit: the entries whose pattern is found in the text; sentences: those
      \* longer than 10 characters (the filler sentences, in which no pattern
      \* matches, follow them)
      Found(hit, sentences) ==
        [detected_issues |->
           [k \in 1..Len(hit) |-> issue(hit[k], FindAllI(hit[k].pattern, Sample(t)))],
         suspicious_content |->
           Prefix(Flatten([k \in 1..Len(hit) |-> content(hit[k], sentences)]), 10)]
  IN Found(SelectSeq(fake_patterns, LAMBDA entry : SearchI(entry.pattern, Sample(t)) # 0),
           SelectSeq(BodySentences(t, SentenceEnds), LAMBDA sn : Len(sn) > 10))

\* the section patterns: keywords followed by [\s\S]{lo,hi}, that is by at
\* least lo characters of any kind
sections ==
  << [section |-> "abstract", words |-> {"abstract"}, lo |-> 50],
     [section |-> "introduction", words |-> {"introduction"}, lo |-> 100],
     [section |-> "methodology", words |-> {"methodology", "methods"}, lo |-> 100],
     [section |-> "results", words |-> {"results"}, lo |-> 100],
     [section |-> "discussion", words |-> {"discussion"}, lo |-> 100],
     [section |-> "conclusion", words |-> {"conclusion"}, lo |-> 50],
     [section |-> "references", words |-> {"references", "bibliography"}, lo |-> 50] >>
\* pattern.search(text): a keyword stands somewhere with lo characters of the
\* text after it
SectionFound(t, sec) ==
  LET In(s) == \E w \in sec.words : \E p \in 1..Len(s) :
                 LitAt(w, s, p) /\ TextLen(t) - (p + Len(w) - 1) >= sec.lo
  IN In(Lower(Sample(t)))

\* _analyze_research_structure, with the missing_elements that
\* _perform_local_analysis adds (_identify_missing_elements)
analyze_research_structure(t) ==
  LET required == <<"abstract", "introduction", "methodology", "results", "conclusion",
                    "references">>
      Structure(found_sections) ==
        [found_sections |-> found_sections,
         total_sections |-> Cardinality(found_sections),
         word_count |-> WordCount(t),
         sentence_count |-> Len(BodySentences(t, SentenceEnds)) + t.pad,
         has_proper_structure |-> Cardinality(found_sections) >= 4,
         missing_elements |-> SelectSeq(required, LAMBDA e : e \notin found_sections)]
  IN Structure({sections[i].section :
                  i \in {j \in 1..Len(sections) : SectionFound(t, sections[j])}})

\* _check_content_authenticity: the five patterns, has_proper_citations the
\* one compiled without re.IGNORECASE
authenticity_checks ==
  << [check |-> "has_specific_dates", ignorecase |-> TRUE,
      pattern |-> << <<B, A(<<"january", "february", "march", "april", "may", "june",
                              "july", "august", "september", "october", "november",
                              "december">>),
                       Spaces(1), C(Digits, 1, 2), C({","}, 0, 1), Spaces(1),
                       C(Digits, 4, 4), B>> >>],
     [check |-> "has_specific_locations", ignorecase |-> TRUE,
      pattern |-> << <<B, A(<<"university of", "institute of", "college of", "hospital",
                              "laboratory", "department of">>),
                       Spaces(1), C(WordChars \cup SpaceChars, 1, Unbounded)>> >>],
     [check |-> "has_real_journals", ignorecase |-> TRUE,
      pattern |-> << <<B, A(<<"nature", "science", "cell", "lancet", "nejm", "plos", "ieee",
                              "acm", "springer", "elsevier">>), B>> >>],
     [check |-> "has_proper_citations", ignorecase |-> FALSE,
      pattern |-> << <<L("["), Many, L("]")>>,
                     <<L("("), C(WordChars, 1, Unbounded), Spaces(1), L("et"), Spaces(1),
                       L("al"), C({"."}, 0, 1), C({","}, 0, 1), Spaces(1),
                       C(Digits, 4, 4), L(")")>> >>],
     [check |-> "has_contact_info", ignorecase |-> TRUE,
      pattern |-> << <<A(<<"email", "correspondence", "contact">>), Rest, L("@"), Rest,
                       L("."), A(<<"edu", "org", "com">>)>> >>] >>

\* len(pattern.findall(text))
CountOf(pattern, ignorecase, text) ==
  Len(FindSpans(pattern, IF ignorecase THEN Lower(text) ELSE text))

check_content_authenticity(t) ==
  LET Checked(n, seen) ==
        [authenticity_score |-> n,
         total_authenticity_points |-> SumSeq(n),
         indicators |-> [k \in 1..Len(seen) |->
                           <<"Found", n[seen[k]], authenticity_checks[seen[k]].check>>]]
      Counted(n) == Checked(n, SelectSeq(Indices(Len(n)), LAMBDA i : n[i] > 0))
  IN Counted([i \in 1..Len(authenticity_checks) |->
                CountOf(authenticity_checks[i].pattern, authenticity_checks[i].ignorecase,
                        Sample(t))])

\* _analyze_repetitive_starters: whether 1 - unique / all, as Python's floats
\* compute it, is above 0.3.  The subtraction is exact but for unique / all =
\* 7/10, where it gives 0.30000000000000004.
starters_repeat(t, sentences) ==
  LET starters == {Lower(Prefix(sentences[k], 15)) : k \in 1..Len(sentences)}
                    \cup (IF t.pad > 0 THEN {Lower(Prefix(FillerSentence, 15))} ELSE {})
      all == Len(sentences) + t.pad
  IN all > 0 /\ 10 * (all - Cardinality(starters)) >= 3 * all

\* _analyze_language_patterns; the counts of transition words and of generic
\* phrases, which it reports and nothing reads, are left out
analyze_language_patterns(t) ==
  LET \* sum(len(s.split()) for s in sentences)
      total(sentences) ==
        SumSeq([k \in 1..Len(sentences) |-> Cardinality(WordStarts(sentences[k]))])
          + t.pad * Cardinality(WordStarts(FillerSentence))
      long(sentences) ==
        Len(sentences) + t.pad > 0 /\ total(sentences) > 25 * (Len(sentences) + t.pad)
      \* vocabulary_diversity < 0.3, the diversity of no words being 0
      poor(words, unique_words) == words = 0 \/ 10 * unique_words < 3 * words
      Scored(is_long, is_poor, repeats, suspicion_score) ==
        [suspicion_score |-> suspicion_score,
         issues |->
           (IF is_long
            THEN <<"Unusually long average sentence length may indicate AI generation">>
            ELSE <<>>)
           \o (IF is_poor THEN <<"Low vocabulary diversity suggests limited language model">>
               ELSE <<>>)
           \o (IF repeats THEN <<"High repetition in sentence structures">> ELSE <<>>),
         naturalness |-> Max2(0, 100 - suspicion_score)]
      Judged(is_long, is_poor, repeats) ==
        Scored(is_long, is_poor, repeats,
               (IF is_long THEN 15 ELSE 0) + (IF is_poor THEN 20 ELSE 0)
                 + (IF repeats THEN 25 ELSE 0))
      Of(sentences) ==
        Judged(long(sentences),
               poor(WordCount(t), Cardinality(FirstOccurrences(t))),
               starters_repeat(t, sentences))
  IN Of(SelectSeq(BodySentences(t, SentenceEnds), LAMBDA sn : Len(sn) > 10))

\* a variant of citation_issues that misses a reference section whether or
\* not the text has citations
citation_issues_of_any_text(total_citations, suspicious_citations, has_reference_section, text_len) ==
  (IF total_citations = 0 /\ text_len > 2000
   THEN <<"No citations found in substantial text">> ELSE <<>>)
    \o (IF 10 * suspicious_citations > 3 * total_citations
        THEN <<"High proportion of unverifiable citations">> ELSE <<>>)
    \o (IF ~has_reference_section
        THEN <<"Citations present but no reference section found">> ELSE <<>>)
\* the issues of _analyze_citation_patterns
citation_issues(total_citations, suspicious_citations, has_reference_section, text_len) ==
  (IF total_citations = 0 /\ text_len > 2000
   THEN <<"No citations found in substantial text">> ELSE <<>>)
    \* suspicious_citations > total_citations * 0.3
    \o (IF 10 * suspicious_citations > 3 * total_citations
        THEN <<"High proportion of unverifiable citations">> ELSE <<>>)
    \o (IF total_citations > 0 /\ ~has_reference_section
        THEN <<"Citations present but no reference section found">> ELSE <<>>)
\* _analyze_citation_patterns
analyze_citation_patterns(t) ==
  LET Result(citation_formats, total_citations, has_reference_section,
             suspicious_citations) ==
        [total_citations |-> total_citations,
         citation_formats |-> citation_formats,
         has_reference_section |-> has_reference_section,
         suspicious_citations |-> suspicious_citations,
         issues |-> citation_issues(total_citations, suspicious_citations,
                                    has_reference_section, TextLen(t))]
      Counted(citation_formats, has_reference_section, suspicious_citations) ==
        Result(citation_formats,
               citation_formats.numbered + citation_formats.author_year
                 + citation_formats.et_al + citation_formats.doi,
               has_reference_section, suspicious_citations)
      In(text) ==
        Counted([numbered |-> CountOf(<< <<L("["), Many, L("]")>> >>, FALSE, text),
                 author_year |->
                   CountOf(<< <<L("("), C(WordChars, 1, Unbounded), Spaces(0),
                                C({","}, 0, 1), Spaces(0), C(Digits, 4, 4),
                                L(")")>> >>, FALSE, text),
                 et_al |->
                   CountOf(<< <<C(WordChars, 1, Unbounded), Spaces(1), L("et"), Spaces(1),
                                L("al"), C({"."}, 0, 1), Spaces(0), C({","}, 0, 1),
                                Spaces(0), C(Digits, 4, 4)>> >>, TRUE, text),
                 doi |-> CountOf(<< <<L("doi:"), Spaces(0), L("10."), Many>> >>, TRUE, text)],
                SearchI(<< <<A(<<"references", "bibliography">>)>> >>, text) # 0,
                CountOf(<< <<L("personal communication")>> >>, TRUE, text)
                  + CountOf(<< <<L("unpublished data")>> >>, TRUE, text)
                  + CountOf(<< <<L("internal report")>> >>, TRUE, text))
  IN In(Sample(t))

\* a variant of severity_multiplier that takes points off for a match of a
\* high-severity pattern
severity_multiplier_rewarding(severity) ==
  CASE severity = "high" -> -15 [] severity = "medium" -> 8 [] severity = "low" -> 3
    [] OTHER -> 5
\* _calculate_fake_probability.  suspicion_score is a multiple of 5, so
\* suspicion_score * 0.8 is the integer 4 * suspicion_score / 5 and the
\* probability an integer-valued float.
severity_multiplier(severity) ==
  CASE severity = "high" -> 15 [] severity = "medium" -> 8 [] severity = "low" -> 3
    [] OTHER -> 5
calculate_fake_probability(analyses) ==
  LET issues == analyses.fake_patterns.detected_issues
      probability ==
        SumSeq([i \in 1..Len(issues) |->
                  issues[i].count * severity_multiplier(issues[i].severity)])
        + (IF ~analyses.structure_analysis.has_proper_structure THEN 20 ELSE 0)
        + (IF analyses.structure_analysis.word_count < 1000 THEN 15 ELSE 0)
        + (4 * analyses.language_analysis.suspicion_score) \div 5
        + (IF Len(analyses.citation_analysis.issues) > 2 THEN 15 ELSE 0)
        + (IF /\ analyses.citation_analysis.total_citations = 0
              /\ analyses.structure_analysis.word_count > 2000 THEN 10 ELSE 0)
        - (IF analyses.authenticity_check.total_authenticity_points > 8 THEN 20 ELSE 0)
        - (IF analyses.citation_analysis.total_citations > 15 THEN 10 ELSE 0)
        - (IF analyses.language_analysis.naturalness > 80 THEN 15 ELSE 0)
  IN Max2(5, Min2(95, probability))

\* _generate_recommendations
generate_recommendations(probability, issues, language_analysis) ==
  LET advice(issue) ==
        CASE issue.category = "Data Fabrication" ->
               <<"Verify all statistical data and numerical claims with original sources">>
          [] issue.category = "Citation Issues" ->
               <<"Cross-check all citations for accuracy and verifiability">>
          [] issue.category = "Statistical Issues" ->
               <<"Statistical results require expert statistical review">>
          [] OTHER -> <<>>
  IN << IF probability > 80
        THEN "CRITICAL: Very high probability of fabricated content - immediate manual review required"
        ELSE IF probability > 60
        THEN "HIGH RISK: Significant concerns detected - thorough verification needed"
        ELSE IF probability > 40
        THEN "MODERATE RISK: Some suspicious patterns found - additional checks recommended"
        ELSE "LOW RISK: Content appears authentic with normal characteristics" >>
     \o Flatten([k \in 1..Len(issues) |-> advice(issues[k])])
     \o (IF language_analysis.naturalness < 60
         THEN <<"Language patterns suggest possible AI generation - human review needed">>
         ELSE <<>>)

\* a variant of quotient_raises that divides whatever the condition says
quotient_raises_unguarded(divisor, guard) == divisor = 0
\* "n / d if x else 0": whether it raises ZeroDivisionError; guard is the
\* truth of x
quotient_raises(divisor, guard) == guard /\ divisor = 0
\* whether a quotient of the local analyses raises: the average sentence
\* length (sentences), the vocabulary diversity (words), the score of
\* _analyze_repetitive_starters (starters), and the citation density and the
\* transition density (len(text) / 1000, guarded by text)
local_analysis_raises(t) ==
  LET Of(sentences, words) ==
        \/ quotient_raises(sentences, sentences # 0)
        \/ quotient_raises(words, words # 0)
        \/ quotient_raises(sentences, sentences # 0)
        \/ quotient_raises(TextLen(t), TextLen(t) # 0)
        \/ quotient_raises(TextLen(t), TextLen(t) # 0)
  IN Of(Len(SelectSeq(BodySentences(t, SentenceEnds), LAMBDA sn : Len(sn) > 10)) + t.pad,
        WordCount(t))

\* _perform_local_analysis (without the timestamp)
perform_local_analysis(t) ==
  LET Analysed(fake_patterns_found, structure_analysis, authenticity_check,
               language_analysis, citation_analysis, fake_probability) ==
        [fake_probability |-> fake_probability,
         is_likely_fake |-> is_likely_fake(fake_probability),
         confidence |-> IF fake_probability > 80 THEN "High"
                        ELSE IF fake_probability > 40 THEN "Medium" ELSE "Low",
         detected_issues |-> fake_patterns_found.detected_issues,
         suspicious_content |-> fake_patterns_found.suspicious_content,
         structure_analysis |-> structure_analysis,
         authenticity_check |-> authenticity_check,
         language_analysis |-> language_analysis,
         citation_analysis |-> citation_analysis,
         recommendations |-> generate_recommendations(fake_probability,
                                                      fake_patterns_found.detected_issues,
                                                      language_analysis),
         analysis_method |-> "local"]
      Analyses(fake_patterns_found, structure_analysis, authenticity_check,
               language_analysis, citation_analysis) ==
        Analysed(fake_patterns_found, structure_analysis, authenticity_check,
                 language_analysis, citation_analysis,
                 calculate_fake_probability(
                   [fake_patterns |-> fake_patterns_found,
                    structure_analysis |-> structure_analysis,
                    authenticity_check |-> authenticity_check,
                    language_analysis |-> language_analysis,
                    citation_analysis |-> citation_analysis]))
  IN Analyses(detect_fake_content_patterns(t), analyze_research_structure(t),
              check_content_authenticity(t), analyze_language_patterns(t),
              analyze_citation_patterns(t))

(***************************************************************************)
(* json.loads, for documents of objects, arrays, strings without escapes,  *)
(* integers and null/true/false.  A value carries its Python type.         *)
(***************************************************************************)
PyInt(n) == [type |-> "int", v |-> n]
PyStr(str) == [type |-> "str", v |-> str]
PyBool(b) == [type |-> "bool", v |-> b]
PyNone == [type |-> "NoneType", v |-> <<>>]
PyList(q) == [type |-> "list", v |-> q]
\* a dict: its keys in the order of insertion, and the value of each key
PyDict(keys, of) == [type |-> "dict", v |-> [keys |-> keys, of |-> of]]
EmptyDict == PyDict(<<>>, <<>>)
HasKey(d, k) == \E i \in 1..Len(d.v.keys) : d.v.keys[i] = k
Get(d, k) == d.v.of[CHOOSE i \in 1..Len(d.v.keys) : d.v.keys[i] = k]
\* d[k] = x
Put(d, k, x) ==
  IF HasKey(d, k)
  THEN PyDict(d.v.keys, [i \in 1..Len(d.v.keys) |-> IF d.v.keys[i] = k THEN x ELSE d.v.of[i]])
  ELSE PyDict(Append(d.v.keys, k), Append(d.v.of, x))

\* a parse: the value and the position after it, or a failure
Parsed(v, p) == [ok |-> TRUE, v |-> v, p |-> p]
NoParse == [ok |-> FALSE, v |-> PyNone, p |-> 0]
SkipSpace(s, p) == p + Run(C(SpaceChars, 0, Unbounded), s, p)
Peek(s, p) == IF p <= Len(s) THEN CharAt(s, p) ELSE ""

ParseString(s, p) ==
  LET Str(str, after) ==
        IF \E j \in 1..Len(str) : CharAt(str, j) \in {"\\", "\n", "\t", "\r"}
        THEN NoParse
        ELSE Parsed(PyStr(str), after)
      Closed(close) ==
        IF Peek(s, p) # "\"" \/ close = {} THEN NoParse
        ELSE Str(SubSeq(s, p + 1, SetMin(close) - 1), SetMin(close) + 1)
  IN Closed({j \in (p + 1)..Len(s) : CharAt(s, j) = "\""})
\* -?(0|[1-9][0-9]*), not followed by a fraction or an exponent
ParseNumber(s, p) ==
  LET Num(neg, d, n) ==
        IF n = 0 \/ (n > 1 /\ CharAt(s, d) = "0") \/ Peek(s, d + n) \in {".", "e", "E"}
        THEN NoParse
        ELSE Parsed(PyInt(IF neg THEN -StrToInt(SubSeq(s, d, d + n - 1))
                          ELSE StrToInt(SubSeq(s, d, d + n - 1))), d + n)
      Signed(neg, d) == Num(neg, d, Run(Many, s, d))
  IN Signed(Peek(s, p) = "-", IF Peek(s, p) = "-" THEN p + 1 ELSE p)

RECURSIVE ParseValue(_, _), ParseMembers(_, _, _), ParseElements(_, _, _)
ParseValue(s, p) ==
  LET Open(close, inside, Empty, More(_)) ==
        IF Peek(s, inside) = close THEN Parsed(Empty, inside + 1) ELSE More(inside)
      members(q) == ParseMembers(s, q, EmptyDict)
      elements(q) == ParseElements(s, q, <<>>)
      Of(ch) ==
        CASE ch = "{" -> Open("}", SkipSpace(s, p + 1), EmptyDict, members)
          [] ch = "[" -> Open("]", SkipSpace(s, p + 1), PyList(<<>>), elements)
          [] ch = "\"" -> ParseString(s, p)
          [] LitAt("null", s, p) -> Parsed(PyNone, p + 4)
          [] LitAt("true", s, p) -> Parsed(PyBool(TRUE), p + 4)
          [] LitAt("false", s, p) -> Parsed(PyBool(FALSE), p + 5)
          [] OTHER -> ParseNumber(s, p)
  IN Of(Peek(s, p))
\* "key": value, then a comma and more members, or the closing brace
ParseMembers(s, p, d) ==
  LET Rest_(dict, after) ==
        IF Peek(s, after) = "}" THEN Parsed(dict, after + 1)
        ELSE IF Peek(s, after) = "," THEN ParseMembers(s, SkipSpace(s, after + 1), dict)
        ELSE NoParse
      Value(key, val) ==
        IF ~val.ok THEN NoParse ELSE Rest_(Put(d, key.v.v, val.v), SkipSpace(s, val.p))
      Colon(key, colon) ==
        IF ~key.ok \/ Peek(s, colon) # ":" THEN NoParse
        ELSE Value(key, ParseValue(s, SkipSpace(s, colon + 1)))
      Key(key) == Colon(key, SkipSpace(s, key.p))
  IN Key(ParseString(s, p))
ParseElements(s, p, q) ==
  LET Rest_(list, after) ==
        IF Peek(s, after) = "]" THEN Parsed(PyList(list), after + 1)
        ELSE IF Peek(s, after) = "," THEN ParseElements(s, SkipSpace(s, after + 1), list)
        ELSE NoParse
      Value(val) ==
        IF ~val.ok THEN NoParse ELSE Rest_(Append(q, val.v), SkipSpace(s, val.p))
  IN Value(ParseValue(s, p))

\* json.loads(s): the value, or JSONDecodeError
json_loads(s) ==
  LET Whole_(r) ==
        IF r.ok /\ SkipSpace(s, r.p) = Len(s) + 1 THEN Return(r.v)
        ELSE Raise("JSONDecodeError")
  IN Whole_(ParseValue(s, SkipSpace(s, 1)))

(***************************************************************************)
(* The Gemini provider of PaperVerificationService.  An exchange ends in a *)
(* transport exception, a timeout, or a response with a status and a body: *)
(* no JSON, JSON without candidates, or JSON whose first candidate carries *)
(* a text.                                                                 *)
(***************************************************************************)
Quoted(str) == "\"" \o str \o "\""
Member(key, value) == Quoted(key) \o ": " \o value
Probabilities == {"-50", "0", "50", "75", "100", "150", "050", "null", Quoted("high")}
Authenticities == {"{\"score\": 8}", "{\"score\": 5}", "{\"score\": 2}", "{}", "7",
                   "{\"score\": \"good\"}"}
Verdict(probability, authenticity) ==
  "{" \o Member("ai_generated_probability", probability) \o ", "
      \o Member("authenticity", authenticity) \o "}"
FullVerdict(recommendations) ==
  "{" \o Member("ai_generated_probability", "75") \o ", "
      \o Member("academic_quality", Quoted("poor")) \o ", "
      \o Member("authenticity", "{\"score\": 5, \"factors\": []}") \o ", "
      \o Member("recommendations", recommendations) \o "}"
GeminiTexts ==
  {Verdict(p, "{\"score\": 8}") : p \in Probabilities}
    \cup {Verdict("50", a) : a \in Authenticities}
    \cup {FullVerdict("[\"Verify all statistical data\", \"Check the methods\"]"),
          FullVerdict("3"),
          FullVerdict("[7]"),
          "{}",
          "{" \o Member("academic_quality", Quoted("good")) \o "}",
          "{" \o Member("ai_generated_probability", "50") \o "}",
          "{" \o Member("authenticity", "{\"score\": 8}") \o "}",
          "Here is the analysis: " \o Verdict("100", "{\"score\": 8}") \o " I hope it helps.",
          Verdict("0", "{\"score\": 2}") \o " {see the notes}",
          "The text cannot be analysed.",
          "{not json}",
          ""}
GeminiOutcomes ==
  {[kind |-> k, status |-> 0, shape |-> "", text |-> ""] : k \in {"exception", "timeout"}}
    \cup {[kind |-> "response", status |-> st, shape |-> "not_json", text |-> ""] :
            st \in {200, 429, 500}}
    \cup {[kind |-> "response", status |-> 200, shape |-> "no_candidates", text |-> ""]}
    \cup {[kind |-> "response", status |-> 200, shape |-> "text", text |-> x] :
            x \in GeminiTexts}

\* _call_gemini_api, the key being configured
call_gemini_api(o) ==
  IF o.kind # "response" THEN Raise(o.kind)
  ELSE IF o.status = 200
       THEN CASE o.shape = "not_json" -> Raise("JSONDecodeError")
              [] o.shape = "text" /\ o.text # "" -> Return(Strip(o.text))
              [] OTHER -> Raise("No valid response from Gemini API")
       ELSE Raise("Gemini API error")

\* _perform_ai_analysis: re.search(r'\{[\s\S]*\}', response_text), json.loads
perform_ai_analysis(o) ==
  LET braces == << <<L("{"), AnyChar(0, Unbounded), L("}")>> >>
      Json(text, from) ==
        IF from = 0 THEN Raise("Invalid AI response format")
        ELSE json_loads(SubSeq(text, from, MatchAt(braces, text, from) - 1))
      Of(response_text) ==
        IF response_text.raised THEN response_text
        ELSE Json(response_text.value, Search(braces, response_text.value))
  IN Of(call_gemini_api(o))

(***************************************************************************)
(* PaperVerificationService: combining the local analysis with the         *)
(* provider's.  The provider's analysis is whatever JSON object it sent,   *)
(* so reading it may raise KeyError or TypeError.                          *)
(***************************************************************************)
IsNumber(x) == x.type \in {"int", "bool"}
\* the number a value stands for in arithmetic and comparisons
NumberOf(x) == IF x.type = "bool" THEN (IF x.v THEN 1 ELSE 0) ELSE x.v
\* what "for rec in x" goes through: the elements, the characters, the keys
Iterable(x) == x.type \in {"list", "str", "dict"}
Elements(x) ==
  CASE x.type = "list" -> x.v
    [] x.type = "str" -> [i \in 1..Len(x.v) |-> PyStr(CharAt(x.v, i))]
    [] OTHER -> [i \in 1..Len(x.v.keys) |-> PyStr(x.v.keys[i])]

\* _generate_combined_recommendations
generate_combined_recommendations(local_analysis, ai_analysis) ==
  LET poor == /\ HasKey(ai_analysis, "academic_quality")
              /\ Get(ai_analysis, "academic_quality").type = "str"
              /\ Get(ai_analysis, "academic_quality").v = "poor"
      high == /\ HasKey(ai_analysis, "ai_generated_probability")
              /\ NumberOf(Get(ai_analysis, "ai_generated_probability")) > 70
      start == local_analysis.recommendations
                 \o (IF poor
                     THEN <<"AI analysis indicates poor academic quality - content review required">>
                     ELSE <<>>)
                 \o (IF high
                     THEN <<"AI detection confidence is high - likely machine-generated content">>
                     ELSE <<>>)
      \* one turn of "for rec in ai_analysis['recommendations']"
      Turn(before, rec) ==
        IF before.raised THEN before
        ELSE IF rec.type # "str" THEN Raise("TypeError")
        ELSE IF \E i \in 1..Len(before.value) :
                  Contains(before.value[i], Prefix(rec.v, 20))
             THEN before
             ELSE Return(Append(before.value, "AI Insight: " \o rec.v))
      Loop(insights) ==
        LET loop[k \in 0..Len(insights)] ==
              IF k = 0 THEN Return(start) ELSE Turn(loop[k - 1], insights[k])
        IN loop[Len(insights)]
      Over(recs) == IF ~Iterable(recs) THEN Raise("TypeError") ELSE Loop(Elements(recs))
  IN Over(IF HasKey(ai_analysis, "recommendations")
          THEN Get(ai_analysis, "recommendations") ELSE PyList(<<>>))

\* a variant of RoundBlend with the two weights exchanged
RoundBlend_exchanged(local, ai) == (4 * local + 6 * ai + 5) \div 10
\* round(local * 0.6 + ai * 0.4): the sum of the two products is within 1e-13
\* of (6 * local + 4 * ai) / 10, which is never half way between two integers
RoundBlend(local, ai) == (6 * local + 4 * ai + 5) \div 10

\* "not x" for None and for a dict
Falsy(x) == x.type = "NoneType" \/ (x.type = "dict" /\ x.v.keys = <<>>)

\* a variant of _combine_analyses that reports the provider's findings in the
\* place of the local ones
combine_analyses_replacing(local_analysis, ai_analysis) ==
  IF Falsy(ai_analysis)
  THEN Return([local_analysis EXCEPT !.analysis_method = "local_only"])
  ELSE Return([local_analysis EXCEPT !.detected_issues = <<>>,
                                     !.analysis_method = "combined"])
\* _combine_analyses; ai_analysis is None or the provider's JSON object
combine_analyses(local_analysis, ai_analysis) ==
  LET ai_confidence(score) ==
        IF score > 7 THEN "High" ELSE IF score > 4 THEN "Medium" ELSE "Low"
      final_confidence(confidence_factors) ==
        IF "High" \in confidence_factors /\ "Low" \notin confidence_factors THEN "High"
        ELSE IF "Medium" \in confidence_factors THEN "Medium" ELSE "Low"
      Combined(combined_probability, confidence, enhanced) ==
        IF enhanced.raised THEN enhanced
        ELSE Return([k \in DOMAIN local_analysis
                             \cup {"ai_analysis", "enhanced_recommendations"} |->
                       CASE k = "fake_probability" -> combined_probability
                         [] k = "is_likely_fake" -> is_likely_fake(combined_probability)
                         [] k = "confidence" -> confidence
                         [] k = "ai_analysis" -> ai_analysis
                         [] k = "analysis_method" -> "combined"
                         [] k = "enhanced_recommendations" -> enhanced.value
                         [] OTHER -> local_analysis[k]])
  IN IF Falsy(ai_analysis)
     THEN Return([local_analysis EXCEPT !.analysis_method = "local_only"])
     ELSE IF ~HasKey(ai_analysis, "ai_generated_probability") THEN Raise("KeyError")
     ELSE IF ~IsNumber(Get(ai_analysis, "ai_generated_probability")) THEN Raise("TypeError")
     ELSE IF ~HasKey(ai_analysis, "authenticity") THEN Raise("KeyError")
     ELSE IF Get(ai_analysis, "authenticity").type # "dict" THEN Raise("TypeError")
     ELSE IF ~HasKey(Get(ai_analysis, "authenticity"), "score") THEN Raise("KeyError")
     ELSE IF ~IsNumber(Get(Get(ai_analysis, "authenticity"), "score")) THEN Raise("TypeError")
     ELSE Combined(RoundBlend(local_analysis.fake_probability,
                              NumberOf(Get(ai_analysis, "ai_generated_probability"))),
                   final_confidence(
                     {local_analysis.confidence,
                      ai_confidence(NumberOf(Get(Get(ai_analysis, "authenticity"),
                                                 "score")))}),
                   generate_combined_recommendations(local_analysis, ai_analysis))

\* verify_authenticity from the end of the provider's exchange on: the inner
\* try swallows what _perform_ai_analysis raises, the outer one wraps what
\* _combine_analyses raises
verify_authenticity(local_analysis, key, o) ==
  LET Analysis(r) == IF r.raised THEN PyNone ELSE r.value
      Wrapped(combined) ==
        IF combined.raised THEN Raise("Failed to verify paper authenticity")
        ELSE combined
  IN Wrapped(combine_analyses(local_analysis,
                              IF key THEN Analysis(perform_ai_analysis(o)) ELSE PyNone))

(***************************************************************************)
(* Paper generation: GroqHttpxService.generate_section_batch and the       *)
(* endpoint /api/papers/generate.  A section task is one call of           *)
(* generate_content_fast; asyncio.gather(..., return_exceptions=True)      *)
(* hands back, per task, what it returned or the exception it raised.      *)
(* The fallback text of a section is written as the name of the template   *)
(* it is made from; the statistics drawn at random into it are left out.   *)
(***************************************************************************)
section_prompts == {"abstract", "introduction", "methodology", "results",
                    "discussion", "conclusion", "references"}
\* the lists of sections a request may ask for; "dataset" has a template but
\* no prompt
SectionLists ==
  UNION {[1..n -> {"abstract", "results", "dataset"}] : n \in 1..MaxSections}
refusals == {"i'm sorry", "i can't help", "i cannot", "i'm not able",
             "i don't feel comfortable", "i won't", "i refuse", "sorry",
             "can't assist", "unable to", "not appropriate", "not comfortable"}
\* how the exchange of one section task may end
SectionOutcomes ==
  {[kind |-> k, status |-> 0, shape |-> "", content |-> ""] : k \in {"exception", "timeout"}}
    \cup {[kind |-> "response", status |-> 500, shape |-> "other", content |-> ""],
          [kind |-> "response", status |-> 200, shape |-> "null_content", content |-> ""]}
    \cup {[kind |-> "response", status |-> 200, shape |-> "content", content |-> c] :
            c \in {"This study reports results that were measured twice and agree.",
                   "  All fifty trials of the second series gave the value of the first.  ",
                   "Too short.",
                   "I am sorry, but this section cannot be written by me at this point.",
                   "We were Unable To collect further samples during the study period.",
                   ""}}

\* get_fallback_content(section, title): the text made from the template of
\* the section
get_fallback_content(section) == "[template of " \o section \o "]"

\* "isinstance(result, str) and result and len(result.strip()) > 50 and not
\* any(refusal in result.lower() for refusal in [...])" on what a task ended in
usable_content(result) ==
  /\ ~result.raised
  /\ result.value # None
  /\ result.value[1] # ""
  /\ Len(Strip(result.value[1])) > 50
  /\ \A refusal \in refusals : ~Contains(Lower(result.value[1]), refusal)

\* a variant of generate_section_batch in which one task that fails takes the
\* whole batch to the fallback
generate_section_batch_failing_together(batch) ==
  [section \in {batch[i].section : i \in 1..Len(batch)} |->
     LET Kept(i) == IF \A j \in 1..Len(batch) : usable_content(batch[j].result)
                    THEN batch[i].result.value[1]
                    ELSE get_fallback_content(section)
     IN Kept(SetMax({i \in 1..Len(batch) : batch[i].section = section}))]
\* the results dictionary of generate_section_batch once every task of the
\* batch has ended: the loop writes results[section] task by task, so that a
\* section asked for twice holds what its last task gave
generate_section_batch(batch) ==
  [section \in {batch[i].section : i \in 1..Len(batch)} |->
     LET Kept(i) == IF usable_content(batch[i].result)
                    THEN batch[i].result.value[1]
                    ELSE get_fallback_content(section)
     IN Kept(SetMax({i \in 1..Len(batch) : batch[i].section = section}))]

\* generate_paper from the end of the batch on (no custom sections):
\* paper_content starts as {"title": ...}, takes the results of the batch,
\* then the fallback for every requested section it does not hold yet
generate_paper(title, section_names, use_ai, ai_results) ==
  LET requested == {section_names[i] : i \in 1..Len(section_names)}
      held == IF use_ai THEN {"title"} \cup DOMAIN ai_results ELSE {"title"}
  IN Response(200,
       [success |-> TRUE,
        paper_content |->
          [key \in held \cup requested |->
             IF use_ai /\ key \in DOMAIN ai_results THEN ai_results[key]
             ELSE IF key = "title" /\ (use_ai \/ key \notin requested) THEN title
             ELSE get_fallback_content(key)],
        sections_count |-> Len(section_names),
        generation_method |-> IF use_ai THEN "groq_httpx_ultra_fast"
                              ELSE "fast_templates"])

(***************************************************************************)
(* middleware/rate_limiter.py.  RateLimiter keeps one deque of timestamps  *)
(* per client IP; every limit type reads and writes that one deque.  A     *)
(* queue is the sequence of the timestamps, the oldest first.              *)
(***************************************************************************)
limits == [general |-> [requests |-> 10, window |-> 900],
           pdf |-> [requests |-> 5, window |-> 900],
           gemini |-> [requests |-> 3, window |-> 60]]
\* "self.limits.get(limit_type, self.limits['general'])"
limit_config(limit_type) ==
  IF limit_type \in DOMAIN limits THEN limits[limit_type] ELSE limits.general

\* _clean_old_requests: popleft() while the oldest timestamp is before the
\* cutoff
clean_old_requests(queue, current_time, window) ==
  LET fresh == {k \in 1..Len(queue) : ~(queue[k] < current_time - window)}
  IN IF fresh = {} THEN <<>> ELSE SubSeq(queue, SetMin(fresh), Len(queue))

\* _check_limit: the queue it leaves and what it returns
check_limit(queue, current_time, limit_type) ==
  LET Checked(cleaned) ==
        IF Len(cleaned) >= limit_config(limit_type).requests
        THEN [requests |-> cleaned, allowed |-> FALSE]
        ELSE [requests |-> Append(cleaned, current_time), allowed |-> TRUE]
  IN Checked(clean_old_requests(queue, current_time, limit_config(limit_type).window))

\* check_rate_limit, check_pdf_rate_limit, check_gemini_rate_limit: what the
\* dependency of the limit type ends in
rate_limit_dependency(allowed, limit_type) ==
  IF allowed THEN Return(None)
  ELSE Raise(HTTPException(429,
         CASE limit_type = "pdf" -> "Too many PDF requests. Please try again later."
           [] limit_type = "gemini" ->
                "AI generation rate limit exceeded. Please wait before trying again."
           [] OTHER -> "Too many requests. Please try again later."))

\* get_rate_limit_status: the queue it leaves and the status it returns
get_rate_limit_status(queue, current_time, limit_type) ==
  LET Status(cleaned, remaining) ==
        [requests |-> cleaned,
         status |-> [limit |-> limit_config(limit_type).requests,
                     remaining |-> remaining,
                     window |-> limit_config(limit_type).window,
                     reset_time |-> IF remaining = 0
                                    THEN Some(current_time + limit_config(limit_type).window)
                                    ELSE None]]
      Cleaned(cleaned) ==
        Status(cleaned, Max2(0, limit_config(limit_type).requests - Len(cleaned)))
  IN Cleaned(clean_old_requests(queue, current_time, limit_config(limit_type).window))

(***************************************************************************)
(* The state machine.  The repository has two applications: main.py, whose *)
(* verification is PaperVerificationService (with or without a Gemini      *)
(* key in its environment), and groq_httpx_ultra.py, whose endpoints use   *)
(* EnhancedVerificationService.  A request is handled in two steps, up to  *)
(* the call of the provider and from the end of that exchange on.          *)
(***************************************************************************)
VARIABLES
  app,        \* the application that runs: "main" or "groq_httpx_ultra"
  api_key,    \* main: whether GEMINI_API_KEY is set
  pc,         \* "idle", "await_gemini", "await_groq", "await_batch" or "done"
  request,    \* the request being handled: endpoint and text
  work,       \* what the handler holds while it awaits the provider
  outcome,    \* how the provider's exchange ended
  response,   \* what the caller gets: a returned value or a raised exception
  tasks,      \* generation: the section tasks of the batch and how each ended
  calls,      \* the calls of the provider made for the request being handled
  requests,   \* rate limiter: the queue of timestamps of each client IP
  now,        \* rate limiter: what time.time() gives
  ticks,      \* rate limiter: how often the clock has advanced
  served,     \* rate limiter: how many calls it has served
  admitted,   \* rate limiter: per IP and limit type, when a request was let in
  rejected,   \* rate limiter: per IP, the limit types that turned a request away
  last        \* rate limiter: the call made last and what it gave
service_vars == <<app, api_key, pc, request, work, outcome, response, tasks, calls>>
limiter_vars == <<requests, now, ticks, served, admitted, rejected, last>>
vars == <<service_vars, limiter_vars>>

Nothing == <<>>

\* the client of the rate limiter (the queues of two clients share nothing)
ClientIPs == {"203.0.113.7"}

Init ==
  /\ \/ app = "main" /\ api_key \in BOOLEAN
     \/ app = "groq_httpx_ultra" /\ api_key = FALSE
  /\ pc = "idle"
  /\ request = Nothing
  /\ work = Nothing
  /\ outcome = Nothing
  /\ response = Nothing
  /\ tasks = <<>>
  /\ calls = 0
  /\ requests = [ip \in ClientIPs |-> <<>>]
  /\ now = 0
  /\ ticks = 0
  /\ served = 0
  /\ admitted = [ip \in ClientIPs |-> [limit_type \in DOMAIN limits |-> <<>>]]
  /\ rejected = [ip \in ClientIPs |-> {}]
  /\ last = Nothing

\* main: verify_authenticity(text) is called; without a key it runs to its end
VerifyAuthenticity(t) ==
  /\ app = "main" /\ pc = "idle"
  /\ request' = [endpoint |-> "verify_authenticity", text |-> t]
  /\ outcome' = Nothing
  /\ IF local_analysis_raises(t)
     THEN /\ work' = Nothing
          /\ pc' = "done"
          /\ response' = Raise("Failed to verify paper authenticity")
          /\ calls' = 0
     ELSE /\ work' = perform_local_analysis(t)
          /\ IF api_key
             THEN pc' = "await_gemini" /\ response' = Nothing /\ calls' = 1
             ELSE /\ pc' = "done"
                  /\ response' = verify_authenticity(work', FALSE, Nothing)
                  /\ calls' = 0
  /\ UNCHANGED <<app, api_key, tasks>>
  /\ UNCHANGED limiter_vars

\* main: the exchange with Gemini ends, verify_authenticity runs to its end
GeminiAnswers(o) ==
  /\ pc = "await_gemini"
  /\ outcome' = o
  /\ response' = verify_authenticity(work, TRUE, o)
  /\ pc' = "done"
  /\ UNCHANGED <<app, api_key, request, work, tasks, calls>>
  /\ UNCHANGED limiter_vars

\* groq_httpx_ultra: POST /api/papers/verify; the request model wants a text
\* of 1 to 50000 characters
VerifyPaper(t) ==
  /\ app = "groq_httpx_ultra" /\ pc = "idle"
  /\ request' = [endpoint |-> "verify_paper", text |-> t]
  /\ outcome' = Nothing
  /\ IF TextLen(t) < 1 \/ TextLen(t) > 50000
     THEN /\ pc' = "done"
          /\ work' = Nothing
          /\ response' = Raise(HTTPException(422, "validation error"))
          /\ calls' = 0
     ELSE /\ pc' = "await_groq"
          /\ work' = analyze_before_ai(t)
          /\ response' = Nothing
          /\ calls' = 1
  /\ UNCHANGED <<app, api_key, tasks>>
  /\ UNCHANGED limiter_vars

\* groq_httpx_ultra: POST /api/papers/verify-pdf
VerifyPaperPdf(filename, pdf) ==
  /\ app = "groq_httpx_ultra" /\ pc = "idle"
  /\ outcome' = Nothing
  /\ LET extracted_text == verify_paper_pdf_extract(filename, pdf)
     IN IF extracted_text.raised
        THEN /\ pc' = "done"
             /\ request' = [endpoint |-> "verify_paper_pdf", text |-> pdf.pages]
             /\ work' = Nothing
             /\ response' = extracted_text
             /\ calls' = 0
        ELSE /\ pc' = "await_groq"
             /\ request' = [endpoint |-> "verify_paper_pdf", text |-> extracted_text.value]
             /\ work' = analyze_before_ai(extracted_text.value)
             /\ response' = Nothing
             /\ calls' = 1
  /\ UNCHANGED <<app, api_key, tasks>>
  /\ UNCHANGED limiter_vars

\* a variant of GroqAnswers that calls the provider a second time when the
\* first call brought nothing
GroqAnswers_retrying(o) ==
  /\ pc = "await_groq"
  /\ outcome' = o
  /\ IF generate_content_fast(o).value = None /\ calls < 2
     THEN calls' = calls + 1 /\ UNCHANGED <<pc, response>>
     ELSE /\ response' = Return(IF request.endpoint = "verify_paper"
                                THEN verify_paper(request.text, work, o)
                                ELSE verify_paper_pdf(request.text, work, o))
          /\ pc' = "done"
          /\ UNCHANGED calls
  /\ UNCHANGED <<app, api_key, request, work, tasks>>
  /\ UNCHANGED limiter_vars
\* groq_httpx_ultra: the exchange with Groq ends, the endpoint answers
GroqAnswers(o) ==
  /\ pc = "await_groq"
  /\ outcome' = o
  /\ response' = Return(IF request.endpoint = "verify_paper"
                        THEN verify_paper(request.text, work, o)
                        ELSE verify_paper_pdf(request.text, work, o))
  /\ pc' = "done"
  /\ UNCHANGED <<app, api_key, request, work, tasks, calls>>
  /\ UNCHANGED limiter_vars

\* groq_httpx_ultra: POST /api/papers/generate; with use_ai a task is made
\* for every requested section that has a prompt, and all are awaited
GeneratePaper(section_names, use_ai) ==
  /\ app = "groq_httpx_ultra" /\ pc = "idle"
  /\ request' = [endpoint |-> "generate_paper", title |-> "Sleep and memory",
                 sections |-> section_names, use_ai |-> use_ai]
  /\ work' = Nothing
  /\ outcome' = Nothing
  /\ tasks' = IF use_ai
              THEN [i \in 1..Len(SelectSeq(section_names, LAMBDA s : s \in section_prompts)) |->
                      [section |-> SelectSeq(section_names, LAMBDA s : s \in section_prompts)[i],
                       result |-> Nothing]]
              ELSE <<>>
  /\ calls' = Len(tasks')
  /\ IF tasks' # <<>>
     THEN pc' = "await_batch" /\ response' = Nothing
     ELSE /\ pc' = "done"
          /\ response' = Return(generate_paper(request'.title, section_names, use_ai, <<>>))
  /\ UNCHANGED <<app, api_key>>
  /\ UNCHANGED limiter_vars

\* groq_httpx_ultra: the exchange of one section task ends, in any order
\* among the tasks; when it was the last one the gather is over and the
\* endpoint answers
SectionTaskAnswers(i, o) ==
  /\ pc = "await_batch"
  /\ i \in 1..Len(tasks) /\ tasks[i].result = Nothing
  /\ tasks' = [tasks EXCEPT ![i].result = generate_content_fast(o)]
  /\ IF \A j \in 1..Len(tasks) : tasks'[j].result # Nothing
     THEN /\ pc' = "done"
          /\ response' = Return(generate_paper(request.title, request.sections,
                                               request.use_ai,
                                               generate_section_batch(tasks')))
     ELSE UNCHANGED <<pc, response>>
  /\ UNCHANGED <<app, api_key, request, work, outcome, calls>>
  /\ UNCHANGED limiter_vars

\* the caller has its answer; the next request may come
Deliver ==
  /\ pc = "done"
  /\ pc' = "idle"
  /\ request' = Nothing
  /\ work' = Nothing
  /\ outcome' = Nothing
  /\ response' = Nothing
  /\ tasks' = <<>>
  /\ calls' = 0
  /\ UNCHANGED <<app, api_key>>
  /\ UNCHANGED limiter_vars

Pdfs == {[readable |-> FALSE, pages |-> [body |-> "", pad |-> 0, cut |-> 0]]}
          \cup {[readable |-> TRUE, pages |-> t] : t \in Texts}

Next ==
  \/ \E t \in Texts : VerifyAuthenticity(t)
  \/ \E o \in GeminiOutcomes : GeminiAnswers(o)
  \/ \E t \in Texts : VerifyPaper(t)
  \/ \E f \in FileNames, pdf \in Pdfs : VerifyPaperPdf(f, pdf)
  \/ \E o \in GroqOutcomes : GroqAnswers(o)
  \/ \E section_names \in SectionLists, use_ai \in BOOLEAN : GeneratePaper(section_names, use_ai)
  \/ \E i \in 1..MaxSections, o \in SectionOutcomes : SectionTaskAnswers(i, o)
  \/ Deliver

Spec == Init /\ [][Next]_vars

(***************************************************************************)
(* The rate limiter on its own: the three dependencies and the status      *)
(* query, called in any order by the client while the clock advances.      *)
(***************************************************************************)
InitRateLimiter == Init /\ app = "main" /\ api_key = FALSE

\* check_rate_limit ('general'), check_pdf_rate_limit ('pdf') or
\* check_gemini_rate_limit ('gemini') is called for a request of the client
CheckRateLimit(ip, limit_type) ==
  LET checked == check_limit(requests[ip], now, limit_type)
  IN /\ served < MaxServed
     /\ served' = served + 1
     /\ requests' = [requests EXCEPT ![ip] = checked.requests]
     /\ admitted' = IF checked.allowed
                    THEN [admitted EXCEPT ![ip][limit_type] = Append(@, now)]
                    ELSE admitted
     /\ rejected' = IF checked.allowed
                    THEN rejected
                    ELSE [rejected EXCEPT ![ip] = @ \cup {limit_type}]
     /\ last' = [op |-> "check", ip |-> ip, limit_type |-> limit_type,
                 result |-> rate_limit_dependency(checked.allowed, limit_type)]
     /\ UNCHANGED <<now, ticks>>
     /\ UNCHANGED service_vars

\* get_rate_limit_status is called for the client
GetRateLimitStatus(ip, limit_type) ==
  LET got == get_rate_limit_status(requests[ip], now, limit_type)
  IN /\ served < MaxServed
     /\ served' = served + 1
     /\ requests' = [requests EXCEPT ![ip] = got.requests]
     /\ last' = [op |-> "status", ip |-> ip, limit_type |-> limit_type,
                 result |-> Return(got.status)]
     /\ UNCHANGED <<now, ticks, admitted, rejected>>
     /\ UNCHANGED service_vars

\* time passes: a second, the shortest window, or the longest
Tick(seconds) ==
  /\ ticks < MaxTicks
  /\ now' = now + seconds
  /\ ticks' = ticks + 1
  /\ UNCHANGED <<requests, served, admitted, rejected, last>>
  /\ UNCHANGED service_vars

NextRateLimiter ==
  \/ \E ip \in ClientIPs, limit_type \in DOMAIN limits : CheckRateLimit(ip, limit_type)
  \/ \E ip \in ClientIPs, limit_type \in DOMAIN limits \cup {"other"} :
       GetRateLimitStatus(ip, limit_type)
  \/ \E seconds \in {1, 60, 900} : Tick(seconds)

SpecRateLimiter == InitRateLimiter /\ [][NextRateLimiter]_vars

(***************************************************************************)
(* The upload endpoint of main.py: POST /api/papers/verify-pdf.            *)
(***************************************************************************)
ContentTypes == {"application/pdf", "text/plain"}
TenMegabytes == 10 * 1024 * 1024
FileSizes == {2048, TenMegabytes, TenMegabytes + 1}

\* what was raised inside the try block, with the texts str(e) may give: the
\* message of an Exception; for an HTTPException "status: detail" or the
\* empty text, depending on the release of the framework
RaisedException(message) ==
  [raised |-> TRUE, value |-> message, str |-> {message}]
RaisedHTTP400(detail) ==
  [raised |-> TRUE, value |-> HTTPException(400, detail), str |-> {"", "400: " \o detail}]

\* PDFProcessorService._clean_extracted_text: runs of whitespace become one
\* space, "page N" and control characters go, the ends are stripped; the
\* texts of the model have single spaces and neither of the others
clean_extracted_text(t) == StripText(t)

\* PDFProcessorService.extract_text_from_pdf
processor_extract_text_from_pdf(pdf) ==
  IF ~pdf.readable
  THEN RaisedException("Failed to extract text from PDF: the file cannot be read")
  ELSE IF TextLen(StripText(clean_extracted_text(pdf.pages))) < 50
       THEN RaisedException(
              "Failed to extract text from PDF: PDF contains insufficient readable text")
       ELSE Return(clean_extracted_text(pdf.pages))

\* verify_paper_pdf of main.py, the try block up to the verification: the
\* extracted text, or what was raised
upload_extract(content_type, size, pdf) ==
  IF content_type # "application/pdf"
  THEN RaisedHTTP400("Only PDF files are allowed")
  ELSE IF size > TenMegabytes
       THEN RaisedHTTP400("File size must be less than 10MB")
       ELSE LET Checked(extracted_text) ==
                  IF extracted_text.raised THEN extracted_text
                  ELSE IF TextLen(StripText(extracted_text.value)) < 100
                       THEN RaisedHTTP400("PDF contains insufficient text for analysis")
                       ELSE extracted_text
            IN Checked(processor_extract_text_from_pdf(pdf))

\* "except Exception as e: raise HTTPException(status_code=500, detail=str(e))"
upload_except(str) == {Raise(HTTPException(500, detail)) : detail \in str}

\* the end of verify_paper_pdf of main.py: the body it returns, or the
\* exception of the verification caught
upload_answers(filename, size, extracted_text, verified) ==
  IF verified.raised
  THEN upload_except({verified.value})
  ELSE {Return([success |-> TRUE,
                message |-> "PDF verification completed",
                data |-> [verification_result |-> verified.value,
                          pdf_metadata |-> [file_name |-> filename,
                                            file_size |-> size,
                                            text_length |-> TextLen(extracted_text),
                                            word_count |-> WordCount(extracted_text)]]])}

InitUpload == Init /\ app = "main"

\* main: POST /api/papers/verify-pdf; without a key the endpoint runs to its
\* end
UploadPdf(filename, content_type, size, pdf) ==
  /\ app = "main" /\ pc = "idle"
  /\ request' = [endpoint |-> "verify_paper_pdf", filename |-> filename,
                 content_type |-> content_type, size |-> size, pdf |-> pdf]
  /\ outcome' = Nothing
  /\ LET Continue(extracted) ==
           IF extracted.raised
           THEN /\ work' = Nothing
                /\ pc' = "done"
                /\ response' \in upload_except(extracted.str)
                /\ calls' = 0
           ELSE IF local_analysis_raises(extracted.value)
                THEN /\ work' = Nothing
                     /\ pc' = "done"
                     /\ response' \in upload_except({"Failed to verify paper authenticity"})
                     /\ calls' = 0
                ELSE /\ work' = perform_local_analysis(extracted.value)
                     /\ IF api_key
                        THEN pc' = "await_gemini_upload" /\ response' = Nothing /\ calls' = 1
                        ELSE /\ pc' = "done"
                             /\ response' \in upload_answers(filename, size, extracted.value,
                                                verify_authenticity(work', FALSE, Nothing))
                             /\ calls' = 0
     IN Continue(upload_extract(content_type, size, pdf))
  /\ UNCHANGED <<app, api_key, tasks>>
  /\ UNCHANGED limiter_vars

\* main: the exchange with Gemini ends, the upload endpoint runs to its end
UploadGeminiAnswers(o) ==
  /\ pc = "await_gemini_upload"
  /\ outcome' = o
  /\ response' \in upload_answers(request.filename, request.size,
                                  upload_extract(request.content_type, request.size,
                                                 request.pdf).value,
                                  verify_authenticity(work, TRUE, o))
  /\ pc' = "done"
  /\ UNCHANGED <<app, api_key, request, work, tasks, calls>>
  /\ UNCHANGED limiter_vars

NextUpload ==
  \/ \E content_type \in ContentTypes, size \in FileSizes, pdf \in Pdfs :
       UploadPdf("paper.pdf", content_type, size, pdf)
  \/ \E o \in GeminiOutcomes : UploadGeminiAnswers(o)
  \/ Deliver

SpecUpload == InitUpload /\ [][NextUpload]_vars

(***************************************************************************)
(* Generation with reserved section names.  services/paper_generation.py:  *)
(* generate_paper_content makes the sections one after the other, each     *)
(* with one call of the provider.  An entry of its paper_content is a text *)
(* or a dictionary.                                                        *)
(***************************************************************************)
Text(s) == [text |-> s]
Dict(d) == [entries |-> d]
\* d[k] = v
SetItem(d, k, v) == [x \in DOMAIN d \cup {k} |-> IF x = k THEN v ELSE d[x]]

\* the section names of the requests, among them the keys paper_content has
\* of its own
ReservedSectionLists ==
  UNION {[1..n -> {"abstract", "title", "metadata", "custom_sections"}] : n \in 1..MaxSections}
CustomSectionLists == {<<>>, <<[name |-> "ethics"]>>}

\* how the exchange of _call_gemini_api may end
GenerationOutcomes ==
  {[kind |-> k, status |-> 0, shape |-> "", text |-> ""] : k \in {"exception", "timeout"}}
    \cup {[kind |-> "response", status |-> 500, shape |-> "other", text |-> ""],
          [kind |-> "response", status |-> 200, shape |-> "no_candidates", text |-> ""]}
    \cup {[kind |-> "response", status |-> 200, shape |-> "text", text |-> x] :
            x \in {"Measured twice, the values agree.",
                   "  Fifty trials gave the value of the first.  ",
                   "   ",
                   ""}}

\* PaperGenerationService._call_gemini_api with a key
generation_call_gemini_api(o) ==
  IF o.kind = "timeout" THEN Raise("Gemini API request timed out")
  ELSE IF o.kind = "exception" THEN Raise("connection failed")
  ELSE IF o.status # 200 THEN Raise("Gemini API error")
  ELSE IF o.shape = "text" /\ o.text # "" THEN Return(Strip(o.text))
  ELSE Raise("No valid response from Gemini API")

\* _generate_fallback_content(section_name, title): the text made from the
\* template of the section
generate_fallback_content(section_name) == "[fallback of " \o section_name \o "]"

\* _generate_section_content and _generate_custom_section_content: without a
\* key the fallback; with one the provider's text, or the fallback when the
\* call raised.  from_provider is not in the code: it tells the two apart
generate_section_content(key, section_name, o) ==
  IF ~key
  THEN [raised |-> FALSE, value |-> generate_fallback_content(section_name),
        from_provider |-> FALSE]
  ELSE LET Got(response_text) ==
             IF response_text.raised
             THEN [raised |-> FALSE, value |-> generate_fallback_content(section_name),
                   from_provider |-> FALSE]
             ELSE [raised |-> FALSE, value |-> response_text.value, from_provider |-> TRUE]
       IN Got(generation_call_gemini_api(o))

\* the sections to make, in the order of the two loops
section_jobs(section_names, custom_sections) ==
  [i \in 1..(Len(section_names) + Len(custom_sections)) |->
     IF i <= Len(section_names)
     THEN [name |-> section_names[i], custom |-> FALSE, first_custom |-> FALSE]
     ELSE [name |-> custom_sections[i - Len(section_names)].name, custom |-> TRUE,
           first_custom |-> i = Len(section_names) + 1]]

\* one turn of a loop of generate_paper_content, from the return of
\* _generate_section_content on: the try branch and the except branch
section_turn(state, job, generated) ==
  LET content == IF generated.raised THEN generate_fallback_content(job.name)
                 ELSE generated.value
      started == IF job.first_custom
                 THEN SetItem(state.paper_content, "custom_sections", Dict(<<>>))
                 ELSE state.paper_content
  IN [paper_content |->
        IF job.custom
        THEN SetItem(started, "custom_sections",
                 Dict(SetItem(started["custom_sections"].entries, job.name, content)))
        ELSE SetItem(started, job.name, Text(content)),
      generation_progress |->
        Append(state.generation_progress,
               IF generated.raised
               THEN [section |-> job.name, status |-> "fallback", error |-> generated.value]
               ELSE [section |-> job.name, status |-> "completed",
                     word_count |-> Cardinality(WordStarts(content))]),
      from_provider |-> Append(state.from_provider, generated.from_provider)]

\* the loops of generate_paper_content without a key: no turn waits
RECURSIVE section_turns(_, _)
section_turns(state, jobs) ==
  IF jobs = <<>> THEN state
  ELSE section_turns(section_turn(state, Head(jobs),
                                  generate_section_content(FALSE, Head(jobs).name, Nothing)),
                     Tail(jobs))

\* calculate_word_count: the words of the texts of a dictionary, the title
\* left out
RECURSIVE words_of_texts(_, _)
words_of_texts(texts, keys) ==
  IF keys = {} THEN 0
  ELSE LET Counted(key) ==
             (IF key # "title" THEN Cardinality(WordStarts(texts[key])) ELSE 0)
               + words_of_texts(texts, keys \ {key})
       IN Counted(CHOOSE key \in keys : TRUE)
RECURSIVE words_of_keys(_, _)
words_of_keys(paper_content, keys) ==
  IF keys = {} THEN 0
  ELSE LET Counted(key) ==
             (IF "text" \in DOMAIN paper_content[key]
              THEN words_of_texts([k \in {key} |-> paper_content[key].text], {key})
              ELSE IF key = "custom_sections"
                   THEN words_of_texts(paper_content[key].entries,
                                       DOMAIN paper_content[key].entries)
                   ELSE 0)
               + words_of_keys(paper_content, keys \ {key})
       IN Counted(CHOOSE key \in keys : TRUE)
calculate_word_count(paper_content) == words_of_keys(paper_content, DOMAIN paper_content)

\* the end of generate_paper_content: the metadata entry, the return
paper_content_with_metadata(state, section_names, custom_sections) ==
  SetItem(state.paper_content, "metadata",
      Dict([generation_progress |-> state.generation_progress,
            total_sections |-> Len(section_names) + Len(custom_sections),
            completed_sections |->
              Len(SelectSeq(state.generation_progress, LAMBDA p : p.status = "completed")),
            total_words |-> calculate_word_count(state.paper_content)]))

\* main: generate_paper_content(title, sections, custom_sections) is called;
\* without a key it runs to its end
GeneratePaperContent(section_names, custom_sections) ==
  /\ app = "main" /\ pc = "idle"
  /\ request' = [endpoint |-> "generate_paper_content", title |-> "Sleep and memory",
                 sections |-> section_names, custom_sections |-> custom_sections]
  /\ outcome' = Nothing
  /\ LET Begin(state, jobs) ==
           IF api_key
           THEN /\ work' = state
                /\ tasks' = jobs
                /\ calls' = 1
                /\ pc' = "await_section"
                /\ response' = Nothing
           ELSE /\ work' = section_turns(state, jobs)
                /\ tasks' = <<>>
                /\ calls' = 0
                /\ pc' = "done"
                /\ response' = Return(paper_content_with_metadata(work', section_names,
                                                                  custom_sections))
     IN Begin([paper_content |-> [key \in {"title"} |-> Text(request'.title)],
               generation_progress |-> <<>>,
               from_provider |-> <<>>],
              section_jobs(section_names, custom_sections))
  /\ UNCHANGED <<app, api_key>>
  /\ UNCHANGED limiter_vars

\* main: the exchange of the section being made ends; the loop goes on to
\* the next section, or generate_paper_content returns
SectionContentAnswers(o) ==
  /\ pc = "await_section"
  /\ outcome' = o
  /\ work' = section_turn(work, Head(tasks), generate_section_content(TRUE, Head(tasks).name, o))
  /\ tasks' = Tail(tasks)
  /\ IF tasks' = <<>>
     THEN /\ pc' = "done"
          /\ response' = Return(paper_content_with_metadata(work', request.sections,
                                                            request.custom_sections))
          /\ UNCHANGED calls
     ELSE /\ calls' = calls + 1
          /\ UNCHANGED <<pc, response>>
  /\ UNCHANGED <<app, api_key, request>>
  /\ UNCHANGED limiter_vars

NextGeneration ==
  \/ \E section_names \in ReservedSectionLists, use_ai \in BOOLEAN :
       GeneratePaper(section_names, use_ai)
  \/ \E i \in 1..MaxSections, o \in SectionOutcomes : SectionTaskAnswers(i, o)
  \/ \E section_names \in ReservedSectionLists, custom_sections \in CustomSectionLists :
       GeneratePaperContent(section_names, custom_sections)
  \/ \E o \in GenerationOutcomes : SectionContentAnswers(o)
  \/ Deliver

SpecGeneration == Init /\ [][NextGeneration]_vars

(***************************************************************************)
(* Properties.  A verdict is what a finished request returned: the         *)
(* dictionary of verify_authenticity, or the body of the 200 response of   *)
(* an enhanced endpoint.                                                   *)
(***************************************************************************)
PVAnswered == app = "main" /\ pc = "done"
PVVerdict == PVAnswered /\ ~response.raised
EVVerdict ==
  /\ app = "groq_httpx_ultra" /\ pc = "done" /\ ~response.raised
  /\ request.endpoint \in {"verify_paper", "verify_paper_pdf"}
\* whether the enhanced verdict's score has the provider's score blended in
EVBlended == response.value.body.quality_assessment.confidence_factors # <<>>

\* C1: whatever the text and whatever the provider replies, the verdict of
\* PaperVerificationService.verify_authenticity has 5 <= fake_probability <= 95,
\* on the local-only path and on the combined path.
C1_ProbabilityWithinBounds ==
  PVVerdict => response.value.fake_probability \in 5..95

\* C2: whatever the text, its word count and the provider's score (present or
\* absent), the fake_probability of the enhanced verifier is within 5..95, also
\* after the adjustment for the length of the text that follows the clamp.
C2_EnhancedProbabilityWithinBounds ==
  EVVerdict => response.value.body.fake_probability \in 5..95
\* a short text with the provider's score blended in, which the adjustment for
\* short texts would take below 5
C2_ShortTextAtFloor ==
  /\ EVVerdict
  /\ EVBlended
  /\ response.value.body.structure_analysis.word_count < 100
  /\ response.value.body.fake_probability = 5

\* the replies the caller cannot use: the call raised, timed out or had a
\* non-success status, the text holds no JSON object or invalid JSON, or the
\* JSON object lacks an expected field
LacksExpectedFields(r) ==
  ~r.raised /\ (\/ ~HasKey(r.value, "ai_generated_probability")
                \/ ~HasKey(r.value, "authenticity"))
Unusable(r) == r.raised \/ LacksExpectedFields(r)

\* C3: with an API key configured, whenever the call of the provider raises,
\* times out, has a non-success status or brings a reply that cannot be used,
\* verify_authenticity still returns a verdict, tagged "local_only" and equal
\* to the local analysis of the text; no exception reaches the caller.
C3_GracefulExternalFailure ==
  (PVAnswered /\ api_key /\ Unusable(perform_ai_analysis(outcome)))
    => /\ ~response.raised
       /\ response.value = [work EXCEPT !.analysis_method = "local_only"]

\* C4: whatever the provider's reply, the judgment _extract_ai_score extracts
\* from it is None or an integer within 0..100.
ScoreWithinRange(ai_score) == ai_score = None \/ ai_score[1] \in 0..100
C4_ExtractedScoreWithinRange ==
  EVVerdict => ScoreWithinRange(extract_ai_score(response.value.body.ai_analysis))

\* the outcomes that bring no judgment: a transport exception, a timeout, a
\* status other than 200, a body without the expected fields, empty content,
\* or a text without the label
NoJudgment(o) ==
  \/ o.kind # "response"
  \/ o.status # 200
  \/ o.shape # "content"
  \/ ~Contains(Lower(o.content), score_label)
\* the score of the text when nothing is blended into it
Unblended(t, w) ==
  length_adjusted(clamp_probability(w.fake_score + analyze_content_quality(t).score),
                  WordCount(t))

\* C5: for every outcome that brings no judgment, generate_content_fast,
\* _get_ai_analysis and _extract_ai_score complete normally, the extracted
\* score is None, and the verdict is returned with nothing blended into its
\* score.
C5_AdapterNeverRaises ==
  (app = "groq_httpx_ultra" /\ pc = "done" /\ outcome # Nothing /\ NoJudgment(outcome))
    => /\ ~generate_content_fast(outcome).raised
       /\ extract_ai_score(get_ai_analysis(generate_content_fast(outcome))) = None
       /\ ~response.raised
       /\ response.value.status = 200
       /\ ~EVBlended
       /\ response.value.body.fake_probability = Unblended(request.text, work)
\* the provider's call ended in a transport exception for a text with issues
C5_ExceptionAbsorbed ==
  /\ EVVerdict
  /\ outcome.kind = "exception"
  /\ response.value.body.detected_issues # <<>>
  /\ response.value.body.ai_analysis = "AI analysis unavailable"

\* C6: every verdict is tagged "combined" exactly when a judgment of the
\* provider was blended into its fake_probability, and "local_only" exactly
\* when none was; there is no other tag.
TagFits(tag, blended) ==
  /\ tag \in {"combined", "local_only"}
  /\ tag = "combined" <=> blended
C6_AnalysisMethodTag ==
  /\ PVVerdict => TagFits(response.value.analysis_method,
                          "ai_analysis" \in DOMAIN response.value)
  /\ EVVerdict => TagFits(response.value.body.analysis_method, EVBlended)

\* the verdict the same request gets when the provider's call fails
GeminiDown == [kind |-> "exception", status |-> 0, shape |-> "", text |-> ""]
GroqDown == [kind |-> "exception", status |-> 0, shape |-> "", content |-> ""]
VerdictWithGeminiDown == verify_authenticity(work, TRUE, GeminiDown).value
VerdictWithGroqDown ==
  IF request.endpoint = "verify_paper"
  THEN verify_paper(request.text, work, GroqDown).body
  ELSE verify_paper_pdf(request.text, work, GroqDown).body
\* the findings computed locally: the issues and the profiles
SameFindings(v, u) ==
  /\ v.detected_issues = u.detected_issues
  /\ v.suspicious_content = u.suspicious_content
  /\ v.structure_analysis = u.structure_analysis
  /\ v.language_analysis = u.language_analysis
  /\ v.citation_analysis = u.citation_analysis
  /\ v.authenticity_check = u.authenticity_check
SameEnhancedFindings(v, u) ==
  /\ v.detected_issues = u.detected_issues
  /\ v.structural_issues = u.structural_issues
  /\ v.structure_analysis = u.structure_analysis

\* C7: for the same text, the verdict got with the provider answering and the
\* verdict got with the provider failing have the same detected issues and the
\* same structural and language profiles.
C7_FindingsIndependentOfProvider ==
  /\ (PVVerdict /\ api_key) => SameFindings(response.value, VerdictWithGeminiDown)
  /\ EVVerdict => SameEnhancedFindings(response.value.body, VerdictWithGroqDown)
\* a combined verdict with local issues whose probability the provider changed
C7_CombinedKeepsIssues ==
  /\ PVVerdict
  /\ response.value.analysis_method = "combined"
  /\ response.value.detected_issues # <<>>
  /\ response.value.fake_probability # work.fake_probability

\* C8: in every verdict of either service (local-only, combined, enhanced text,
\* enhanced PDF) is_likely_fake is true exactly when the fake_probability of
\* that verdict is above 60.
FlagFits(v) == v.is_likely_fake <=> v.fake_probability > 60
C8_LikelyFakeIffAbove60 ==
  /\ PVVerdict => FlagFits(response.value)
  /\ EVVerdict => FlagFits(response.value.body)
\* a combined verdict on the other side of 60 than the local analysis
C8_BlendCrosses60 ==
  /\ PVVerdict
  /\ response.value.analysis_method = "combined"
  /\ response.value.is_likely_fake
  /\ ~work.is_likely_fake

\* the rung of the ladder a probability stands on, 5 the highest
Rung(p) ==
  IF p > 80 THEN 5 ELSE IF p > 60 THEN 4 ELSE IF p > 40 THEN 3
  ELSE IF p > 20 THEN 2 ELSE 1
\* the rungs a first recommendation stands for; the lowest message of
\* PaperVerificationService is taken for either of the two lowest rungs
RungsOf(recommendation) ==
  CASE Contains(recommendation, "CRITICAL") -> {5}
    [] Contains(recommendation, "High probability of fabricated content") -> {5}
    [] Contains(recommendation, "HIGH RISK") -> {4}
    [] Contains(recommendation, "Suspicious content detected") -> {4}
    [] Contains(recommendation, "MODERATE RISK") -> {3}
    [] Contains(recommendation, "concerns identified") -> {3}
    [] Contains(recommendation, "minor concerns") -> {2}
    [] Contains(recommendation, "LOW RISK") -> {1, 2}
    [] Contains(recommendation, "highly authentic") -> {1}
    [] OTHER -> {}
FirstFits(v) == Rung(v.fake_probability) \in RungsOf(v.recommendations[1])

\* C9: in every verdict the first recommendation is the one the ladder (above
\* 80, above 60, above 40, above 20, otherwise) selects for the
\* fake_probability of that verdict; on the combined path that is the combined
\* probability.
C9_FirstRecommendationFollowsProbability ==
  /\ PVVerdict => FirstFits(response.value)
  /\ EVVerdict => FirstFits(response.value.body)

\* the issues of the registry's statistical patterns, and the citation red flag
StatisticalIssue(issue) ==
  \E i \in 1..Len(statistical_patterns) : statistical_patterns[i].name = issue.type
CitationRedFlag(issue) == issue.type = "Unverifiable Citations"
StatisticalDetected(v) ==
  \E i \in 1..Len(v.detected_issues) : StatisticalIssue(v.detected_issues[i])
RedFlagDetected(v) ==
  \E i \in 1..Len(v.detected_issues) : CitationRedFlag(v.detected_issues[i])
Emitted(v, message) == \E i \in 1..Len(v.recommendations) : v.recommendations[i] = message
FollowUpsFit(v) ==
  /\ Emitted(v, "Verify all statistical claims independently") <=> StatisticalDetected(v)
  /\ Emitted(v, "Statistical reporting appears normal") <=> ~StatisticalDetected(v)
  /\ Emitted(v, "Check all citations and references") <=> RedFlagDetected(v)
  /\ Emitted(v, "Citation patterns appear normal") <=> ~RedFlagDetected(v)

\* C10: the enhanced verdict says to verify the statistical claims exactly when
\* a statistical pattern of the registry was detected, and to check the
\* citations exactly when an unverifiable citation was; otherwise, and when
\* only the recent-citation pattern matched, it gives the reassuring message.
C10_FollowUpsMatchIssues ==
  EVVerdict => FollowUpsFit(response.value.body)

\* C11: in every verdict, confidence is "High" when the fake_probability of
\* that verdict is above 80 or below 20 and "Medium" otherwise; it depends on
\* the reported fake_probability alone.
ConfidenceOf(fake_probability) ==
  IF fake_probability > 80 \/ fake_probability < 20 THEN "High" ELSE "Medium"
ConfidenceFits(v) == v.confidence = ConfidenceOf(v.fake_probability)
C11_ConfidenceFollowsProbability ==
  /\ PVVerdict => ConfidenceFits(response.value)
  /\ EVVerdict => ConfidenceFits(response.value.body)

\* the analyses as _calculate_fake_probability reads them, with the issues given
AnalysesWith(local_analysis, issues) ==
  [fake_patterns |-> [detected_issues |-> issues],
   structure_analysis |-> local_analysis.structure_analysis,
   authenticity_check |-> local_analysis.authenticity_check,
   language_analysis |-> local_analysis.language_analysis,
   citation_analysis |-> local_analysis.citation_analysis]
\* the issues when the pattern of the given type has n more matches
MoreMatches(issues, type, severity, n) ==
  IF \E i \in 1..Len(issues) : issues[i].type = type
  THEN [i \in 1..Len(issues) |->
          IF issues[i].type = type THEN [issues[i] EXCEPT !.count = @ + n] ELSE issues[i]]
  ELSE Append(issues, [type |-> type, severity |-> severity, count |-> n])
HighTypes ==
  {fake_patterns[i].key :
     i \in {j \in 1..Len(fake_patterns) : fake_patterns[j].severity = "high"}}
HighEntries ==
  SelectSeq(statistical_patterns \o language_patterns, LAMBDA e : e.severity = "high")
\* the local analysis of the text with n more matches, all else as it is
LocalWithMore(local_analysis, type, n) ==
  [local_analysis EXCEPT !.fake_probability =
     calculate_fake_probability(
       AnalysesWith(local_analysis,
                    MoreMatches(local_analysis.detected_issues, type, "high", n)))]
\* the provider's analysis that went into a verdict
ProviderAnalysis(v) == IF "ai_analysis" \in DOMAIN v THEN v.ai_analysis ELSE PyNone
\* the score before the provider when the pattern of the entry has more
\* matches: a pattern adds its score once, however many matches it has
ScoreWithMore(w, entry) ==
  IF \E i \in 1..Len(w.detected_issues) : w.detected_issues[i].type = entry.name
  THEN w.fake_score
  ELSE w.fake_score + entry.score
MonotoneLocal ==
  LET NoLess(r) == ~r.raised /\ r.value.fake_probability >= response.value.fake_probability
  IN /\ calculate_fake_probability(AnalysesWith(work, work.detected_issues))
          = work.fake_probability
     /\ \A type \in HighTypes, n \in 1..MaxExtraMatches :
          NoLess(combine_analyses(LocalWithMore(work, type, n),
                                  ProviderAnalysis(response.value)))
MonotoneEnhanced ==
  LET NoLess(ai_score, quality_score, word_count) ==
        /\ final_probability(work.fake_score, ai_score, quality_score, word_count)
             = response.value.body.fake_probability
        /\ \A k \in 1..Len(HighEntries) :
             final_probability(ScoreWithMore(work, HighEntries[k]), ai_score,
                               quality_score, word_count)
               >= response.value.body.fake_probability
  IN NoLess(extract_ai_score(response.value.body.ai_analysis),
            analyze_content_quality(request.text).score, WordCount(request.text))

\* C12: with the structure, the word-count category, the language, citation
\* and authenticity analyses and the provider's judgment as they are, more
\* matches of a high-severity pattern never lower the fake_probability of the
\* verdict, in either service.
C12_MonotonicSeverity ==
  /\ PVVerdict => MonotoneLocal
  /\ EVVerdict => MonotoneEnhanced
\* a combined verdict that one more match of a high-severity pattern raises
C12_MoreMatchesRaise ==
  /\ PVVerdict
  /\ response.value.analysis_method = "combined"
  /\ response.value.detected_issues # <<>>
  /\ \E type \in HighTypes :
       combine_analyses(LocalWithMore(work, type, 1),
                        ProviderAnalysis(response.value)).value.fake_probability
         > response.value.fake_probability

\* C13: the local analysis of the empty string returns without raising (no
\* quotient divides by zero), with word_count 0, sentence_count 0 and
\* has_proper_structure false.
C13_EmptyInputStability ==
  (app = "main" /\ pc # "idle" /\ TextLen(request.text) = 0)
    => /\ work # Nothing
       /\ work.structure_analysis.word_count = 0
       /\ work.structure_analysis.sentence_count = 0
       /\ ~work.structure_analysis.has_proper_structure
       /\ (~api_key => ~response.raised)
\* the verdict of the empty string, without a provider
C13_EmptyTextAnswered ==
  /\ PVVerdict
  /\ TextLen(request.text) = 0
  /\ response.value.analysis_method = "local_only"
  /\ response.value.structure_analysis.word_count = 0

\* C14: for a text of zero length (or only whitespace) the language analysis
\* is a zero-valued profile: no issue, suspicion_score 0, naturalness 100.
ZeroLanguageProfile(language_analysis) ==
  /\ language_analysis.issues = <<>>
  /\ language_analysis.suspicion_score = 0
  /\ language_analysis.naturalness = 100
C14_EmptyTextZeroLanguageProfile ==
  (app = "main" /\ pc # "idle" /\ work # Nothing /\ WordCount(request.text) = 0)
    => ZeroLanguageProfile(work.language_analysis)

\* the number of academic sections the enhanced verifier finds in a text
EnhancedSectionsFound(t) ==
  LET In(text_lower) ==
        Cardinality({sec \in academic_sections : Contains(text_lower, sec)})
  IN In(Lower(Sample(t)))
\* C15: in every verdict has_proper_structure is true exactly when at least 4
\* of the canonical academic sections are found in the text, and
\* total_sections is the number of true entries of found_sections (0 to 7).
C15_ProperStructureIffFourSections ==
  /\ PVVerdict =>
       /\ response.value.structure_analysis.has_proper_structure
            <=> response.value.structure_analysis.total_sections >= 4
       /\ response.value.structure_analysis.total_sections
            = Cardinality(response.value.structure_analysis.found_sections)
       /\ response.value.structure_analysis.total_sections \in 0..7
  /\ EVVerdict =>
       (response.value.body.structure_analysis.has_proper_structure
          <=> EnhancedSectionsFound(request.text) >= 4)

\* C16: every element of detected_issues of every verdict has a severity of
\* the one three-level set {high, medium, low}.
SeverityLevels == {"high", "medium", "low"}
SeveritiesFit(v) ==
  \A i \in 1..Len(v.detected_issues) : v.detected_issues[i].severity \in SeverityLevels
C16_SeverityOfThreeLevels ==
  /\ PVVerdict => SeveritiesFit(response.value)
  /\ EVVerdict => SeveritiesFit(response.value.body)

\* the first min(3, count) of the matches
FirstThree(matches) == SubSeq(matches, 1, Min2(3, Len(matches)))
\* an issue with a positive count and the first matches as its examples
IssueFits(issue, matches) ==
  /\ issue.count \in Nat \ {0}
  /\ issue.count = Len(matches)
  /\ "examples" \in DOMAIN issue
  /\ issue.examples = FirstThree(matches)
\* the substrings of the text the pattern behind an issue matches; an issue
\* that comes from no pattern has its count of them
MatchesBehind(issue, t) ==
  LET table == statistical_patterns \o language_patterns
      Of(at) == IF at = {} THEN [k \in 1..issue.count |-> ""]
                ELSE FindAll(table[CHOOSE i \in at : TRUE].pattern, Lower(Sample(t)))
  IN Of({i \in 1..Len(table) : table[i].name = issue.type})
LocalMatchesBehind(issue, t) ==
  LET Of(at) == FindAllI(fake_patterns[CHOOSE i \in at : TRUE].pattern, Sample(t))
  IN Of({i \in 1..Len(fake_patterns) : fake_patterns[i].key = issue.type})

\* C17: every element of detected_issues has a positive count and an examples
\* sequence that holds the first min(3, count) matches in match order; there
\* is an issue for a pattern only when the pattern has a match.
C17_IssueCountAndExamples ==
  /\ PVVerdict =>
       \A i \in 1..Len(response.value.detected_issues) :
         IssueFits(response.value.detected_issues[i],
                   LocalMatchesBehind(response.value.detected_issues[i], request.text))
  /\ EVVerdict =>
       \A i \in 1..Len(response.value.body.detected_issues) :
         IssueFits(response.value.body.detected_issues[i],
                   MatchesBehind(response.value.body.detected_issues[i], request.text))


\* a generation request has its answer
GenerationAnswered ==
  app = "groq_httpx_ultra" /\ pc = "done" /\ request.endpoint = "generate_paper"
\* a section task failed: it raised, brought no reply, a reply of at most 50
\* characters, or a refusal
TaskFailed(result) ==
  \/ result.raised
  \/ result.value = None
  \/ Len(Strip(result.value[1])) <= 50
  \/ \E refusal \in refusals : Contains(Lower(result.value[1]), refusal)
\* the task whose entry the section holds at the end: the last one made for it
LastTaskOfSection(i) ==
  \A j \in (i + 1)..Len(tasks) : tasks[j].section # tasks[i].section

\* C18: when a generation request with use_ai has its answer, every task of
\* its batch has run to its end (none was cancelled), the endpoint returned
\* with status 200 (nothing was raised), and each section that had a task
\* holds the fallback content if that task failed and otherwise exactly the
\* content that task returned, whatever the other tasks of the batch did.
C18_BatchTasksIndependent ==
  (GenerationAnswered /\ request.use_ai) =>
    /\ ~response.raised /\ response.value.status = 200
    /\ \A i \in 1..Len(tasks) :
         /\ tasks[i].result # Nothing
         /\ LastTaskOfSection(i) =>
              response.value.body.paper_content[tasks[i].section] =
                IF TaskFailed(tasks[i].result)
                THEN get_fallback_content(tasks[i].section)
                ELSE tasks[i].result.value[1]
\* a batch of two sections answered: the first task failed and its section
\* holds the fallback, the second section holds what its own task returned
C18_OneFailsOtherKept ==
  /\ GenerationAnswered /\ request.use_ai /\ ~response.raised
  /\ Len(tasks) = 2 /\ tasks[1].section # tasks[2].section
  /\ TaskFailed(tasks[1].result) /\ ~TaskFailed(tasks[2].result)
  /\ response.value.body.paper_content[tasks[1].section]
       = get_fallback_content(tasks[1].section)
  /\ response.value.body.paper_content[tasks[2].section] = tasks[2].result.value[1]


\* a verification is being handled, or has its answer
Verifying ==
  /\ pc # "idle"
  /\ request.endpoint \in {"verify_authenticity", "verify_paper", "verify_paper_pdf"}
\* the exchange with the provider ended without a judgment to read
CallFailed(o) ==
  IF app = "main" THEN call_gemini_api(o).raised
  ELSE generate_content_fast(o).value = None

\* C19: during one verification the provider is called at most once; while
\* the verification waits for the provider that one call has been made and
\* has not ended; and once the call has ended, failed or not, the
\* verification is not waiting again: it has composed its answer with the
\* one call made.
C19_ProviderCalledAtMostOnce ==
  Verifying =>
    /\ calls <= 1
    /\ pc \in {"await_gemini", "await_groq"} => calls = 1 /\ outcome = Nothing
    /\ outcome # Nothing => pc = "done" /\ calls = 1 /\ response # Nothing
\* a verification whose one call of the provider failed has its verdict
C19_FailedCallAnswered ==
  /\ Verifying /\ pc = "done" /\ outcome # Nothing /\ CallFailed(outcome)
  /\ outcome.kind \in {"exception", "timeout"}
  /\ calls = 1 /\ ~response.raised


(***************************************************************************)
(* Scenario A: short texts without section keywords that claim perfect     *)
(* results and an impossible p-value, of 8 to 192 words.                   *)
(***************************************************************************)
ScenarioATexts ==
  [body : {"we saw 100% accuracy. p < 0.0001 holds. ",
           "p < 0.0001 holds. we saw 100% accuracy. ",
           "we saw 100% accuracy. p < 0.0001 holds. p < 0.0001 holds. "},
   pad : {0, 9, 20, 30},
   cut : {0}]
NextScenarioA ==
  \/ \E t \in ScenarioATexts : VerifyAuthenticity(t)
  \/ \E o \in GeminiOutcomes : GeminiAnswers(o)
  \/ \E t \in ScenarioATexts : VerifyPaper(t)
  \/ \E o \in GroqOutcomes : GroqAnswers(o)
  \/ Deliver
SpecScenarioA == Init /\ [][NextScenarioA]_vars

\* whether the verdict has an issue of the type
HasIssue(v, type) ==
  \E i \in 1..Len(v.detected_issues) : v.detected_issues[i].type = type
\* the text is one of Scenario A for the verifier that reads it: fewer than
\* 200 words, none of the verifier's section keywords, and a match of its
\* perfect-results pattern and of its p-value pattern
LocalScenarioA(t) ==
  /\ WordCount(t) < 200
  /\ analyze_research_structure(t).total_sections = 0
  /\ LocalMatchesBehind([type |-> "impossible_results"], t) # <<>>
  /\ LocalMatchesBehind([type |-> "suspicious_statistics"], t) # <<>>
EnhancedScenarioA(t) ==
  /\ WordCount(t) < 200
  /\ EnhancedSectionsFound(t) = 0
  /\ MatchesBehind([type |-> "Perfect Results Claims", count |-> 0], t) # <<>>
  /\ MatchesBehind([type |-> "Impossible P-values", count |-> 0], t) # <<>>
\* what Scenario A expects of a verdict
ScenarioAVerdict(v, perfect_results, suspicious_statistics) ==
  /\ HasIssue(v, perfect_results)
  /\ HasIssue(v, suspicious_statistics)
  /\ ~v.structure_analysis.has_proper_structure
  /\ v.fake_probability >= 60

\* C20: a verdict on a text of Scenario A, composed without a judgment of the
\* provider, has a perfect-results issue and a suspicious-statistics issue,
\* has_proper_structure false and fake_probability >= 60.
C20_ScenarioA ==
  /\ (PVVerdict /\ (outcome = Nothing \/ CallFailed(outcome))
        /\ LocalScenarioA(request.text))
       => ScenarioAVerdict(response.value, "impossible_results", "suspicious_statistics")
  /\ (EVVerdict /\ NoJudgment(outcome) /\ EnhancedScenarioA(request.text))
       => ScenarioAVerdict(response.value.body, "Perfect Results Claims",
                           "Impossible P-values")

\* the weight of a severity in the pattern pass, as the description has it
SeverityWeight(severity) ==
  CASE severity = "high" -> 15 [] severity = "medium" -> 8 [] severity = "low" -> 3
    [] OTHER -> 0
\* what the issues of the pattern pass add to the raw score by that rule
IssuesContribution(issues) ==
  SumSeq([i \in 1..Len(issues) |->
            IF issues[i].type = "Recent Citation Pattern" THEN -5 * issues[i].count
            ELSE issues[i].count * SeverityWeight(issues[i].severity)])
\* the other terms of _calculate_fake_probability, read from the analyses
LocalOtherTerms(w) ==
  (IF ~w.structure_analysis.has_proper_structure THEN 20 ELSE 0)
    + (IF w.structure_analysis.word_count < 1000 THEN 15 ELSE 0)
    + (4 * w.language_analysis.suspicion_score) \div 5
    + (IF Len(w.citation_analysis.issues) > 2 THEN 15 ELSE 0)
    + (IF w.citation_analysis.total_citations = 0 /\ w.structure_analysis.word_count > 2000
       THEN 10 ELSE 0)
    - (IF w.authenticity_check.total_authenticity_points > 8 THEN 20 ELSE 0)
    - (IF w.citation_analysis.total_citations > 15 THEN 10 ELSE 0)
    - (IF w.language_analysis.naturalness > 80 THEN 15 ELSE 0)
\* the terms steps 2 and 3 of analyze_text_authenticity add before the pass
EnhancedOtherTerms(w) ==
  15 * Len(SelectSeq(w.structural_issues,
                     LAMBDA str : str = "Lacks proper academic structure"))
    + 12 * Len(SelectSeq(w.structural_issues,
                         LAMBDA str : str = "Insufficient or inconsistent citations"))

\* C21: the pattern pass adds count * weight of the severity (15, 8, 3) for
\* each detected issue, and takes 5 per match for the recent-citation
\* pattern: the local score is the clamp of that sum plus the other terms,
\* and the raw score of the enhanced verifier before the provider is that
\* sum plus its structural terms.
C21_PatternPassCountTimesWeight ==
  /\ (app = "main" /\ work # Nothing) =>
       work.fake_probability
         = Max2(5, Min2(95, IssuesContribution(work.detected_issues)
                              + LocalOtherTerms(work)))
  /\ (app = "groq_httpx_ultra" /\ work # Nothing) =>
       work.fake_score
         = IssuesContribution(work.detected_issues) + EnhancedOtherTerms(work)

\* r is the integer nearest to (6 * local + 4 * external) / 10, and lies
\* between the two
BlendOf(r, local, external) ==
  /\ 10 * r - 5 <= 6 * local + 4 * external
  /\ 6 * local + 4 * external < 10 * r + 5
  /\ Min2(local, external) <= r /\ r <= Max2(local, external)
\* the verdict was combined with a judgment of the provider
PVCombined == PVVerdict /\ response.value.analysis_method = "combined"

\* C22: when verify_authenticity combined the local analysis with a judgment
\* of the provider, the reported fake_probability is round(0.6 * local
\* fake_probability + 0.4 * ai_generated_probability), the local
\* fake_probability being the clamped one in 5..95, and it lies between the
\* smaller and the larger of the two.
C22_CombinedIsWeightedRound ==
  PVCombined =>
    /\ work.fake_probability \in 5..95
    /\ BlendOf(response.value.fake_probability, work.fake_probability,
               NumberOf(Get(response.value.ai_analysis, "ai_generated_probability")))
\* a combined verdict whose two inputs differ and whose blend had to be
\* rounded
C22_BlendRounded ==
  /\ PVCombined
  /\ work.fake_probability
       # NumberOf(Get(response.value.ai_analysis, "ai_generated_probability"))
  /\ (6 * work.fake_probability
        + 4 * NumberOf(Get(response.value.ai_analysis, "ai_generated_probability")))
       % 10 # 0
  /\ response.value.fake_probability # work.fake_probability

\* the raw score of the enhanced verifier at its clamp: the score of steps 1
\* to 4, the provider's score blended in when it gave one, the quality score
EnhancedRawScore(w, o, t) ==
  LET Raw(ai_score) ==
        (IF ai_score # None THEN IntBlend(w.fake_score, ai_score[1]) ELSE w.fake_score)
          + analyze_content_quality(t).score
  IN Raw(extract_ai_score(get_ai_analysis(generate_content_fast(o))))
\* the clamp to 5..95, then the one adjustment for the length
ClampedThenAdjusted(fake_probability, raw, word_count) ==
  LET Of(clamped) ==
        /\ clamped \in 5..95
        /\ clamped = (IF raw < 5 THEN 5 ELSE IF raw > 95 THEN 95 ELSE raw)
        /\ word_count < 100 =>
             fake_probability = (IF clamped - 10 < 5 THEN 5 ELSE clamped - 10)
        /\ word_count > 2000 =>
             fake_probability = (IF clamped + 5 > 95 THEN 95 ELSE clamped + 5)
        /\ word_count \in 100..2000 => fake_probability = clamped
  IN Of(IF raw < 5 THEN 5 ELSE IF raw > 95 THEN 95 ELSE raw)

\* C23: the fake_probability of an enhanced verdict is the raw score clamped
\* to 5..95 and then adjusted once for the length: minus 10 but not below 5
\* under 100 words, plus 5 but not above 95 over 2000 words, and the clamped
\* score itself from 100 to 2000 words.
C23_LengthAdjustedOnceAfterClamp ==
  EVVerdict =>
    ClampedThenAdjusted(response.value.body.fake_probability,
                        EnhancedRawScore(work, outcome, request.text),
                        WordCount(request.text))
\* a verdict on a text under 100 words whose clamped score was above 15 and
\* lost 10
C23_ShortTextTenBelow ==
  /\ EVVerdict
  /\ WordCount(request.text) < 100
  /\ EnhancedRawScore(work, outcome, request.text) \in 16..95
  /\ response.value.body.fake_probability
       = EnhancedRawScore(work, outcome, request.text) - 10

\* the citation analysis reports the issue
ReportsIssue(citation_analysis, issue) ==
  \E i \in 1..Len(citation_analysis.issues) : citation_analysis.issues[i] = issue
\* the 10 of the combinator for a substantial text without citations, as
\* _calculate_fake_probability decides it
NoCitationsTerm(w) ==
  IF w.citation_analysis.total_citations = 0 /\ w.structure_analysis.word_count > 2000
  THEN 10 ELSE 0

\* C24: the local score has the 10 for a text without citations exactly when
\* the citation analysis reports 'No citations found in substantial text',
\* that is when it found no citation in a text of more than 2000 characters.
C24_NoCitationsTenWithTheIssue ==
  (app = "main" /\ work # Nothing) =>
    /\ ReportsIssue(work.citation_analysis, "No citations found in substantial text")
         <=> (work.citation_analysis.total_citations = 0 /\ TextLen(request.text) > 2000)
    /\ work.fake_probability
         = Max2(5, Min2(95,
                  IssuesContribution(work.detected_issues)
                    + LocalOtherTerms(work) - NoCitationsTerm(work)
                    + (IF ReportsIssue(work.citation_analysis,
                                       "No citations found in substantial text")
                       THEN 10 ELSE 0)))

\* C25: the citation analysis never reports more than 2 issues, the issue of
\* a text without citations and the issue of citations without a reference
\* section never come together, and the local score never holds the 15 of
\* the combinator for more than 2 citation issues.
C25_AtMostTwoCitationIssues ==
  (app = "main" /\ work # Nothing) =>
    /\ Len(work.citation_analysis.issues) <= 2
    /\ ~(/\ ReportsIssue(work.citation_analysis, "No citations found in substantial text")
         /\ ReportsIssue(work.citation_analysis,
                         "Citations present but no reference section found"))
    /\ work.fake_probability
         = Max2(5, Min2(95,
                  IssuesContribution(work.detected_issues) + LocalOtherTerms(work)
                    - (IF Len(work.citation_analysis.issues) > 2 THEN 15 ELSE 0)))
\* a text for which the citation analysis reports two issues
C25_TwoCitationIssues ==
  /\ app = "main" /\ work # Nothing
  /\ Len(work.citation_analysis.issues) = 2
  /\ ReportsIssue(work.citation_analysis, "High proportion of unverifiable citations")

\* ---------------------------------------------------------------------------
\* how many of the admission times lie in the window that starts at start
AdmittedWithin(times, start, window) ==
  Cardinality({k \in 1..Len(times) : start <= times[k] /\ times[k] < start + window})

\* C26: for every client IP and every interleaving of check_rate_limit,
\* check_pdf_rate_limit and check_gemini_rate_limit, the number of requests
\* admitted under a limit type within any window of that type never exceeds
\* the type's maximum (10 per 900 s general, 5 per 900 s pdf, 3 per 60 s
\* gemini).
C26_AdmittedWithinTheMaximum ==
  \A ip \in ClientIPs, limit_type \in DOMAIN limits :
    \A k \in 1..Len(admitted[ip][limit_type]) :
      AdmittedWithin(admitted[ip][limit_type], admitted[ip][limit_type][k],
                     limits[limit_type].window) <= limits[limit_type].requests

\* ---------------------------------------------------------------------------
\* the oldest timestamp of the client's queue is older than the window
OldestExpired(ip, limit_type) ==
  /\ requests[ip] # <<>>
  /\ requests[ip][1] < now - limits[limit_type].window

\* the step admits a request under the limit type
LetIn(ip, limit_type) ==
  Len(admitted'[ip][limit_type]) = Len(admitted[ip][limit_type]) + 1

\* the step leaves the queue as it was but for the expired timestamps
OnlyExpiredRemoved(ip, limit_type) ==
  requests'[ip] = clean_old_requests(requests[ip], now, limit_config(limit_type).window)

\* C27: a rejection and get_rate_limit_status leave the queue of the client
\* as it was apart from the expired timestamps, and a client that has been
\* rejected under a limit type is admitted on the first request of that type
\* it makes after its oldest recorded timestamp became older than the window.
C27_RejectedThenAdmittedAfterExpiry ==
  [][ /\ \A ip \in ClientIPs, limit_type \in DOMAIN limits :
           /\ (CheckRateLimit(ip, limit_type) /\ ~LetIn(ip, limit_type))
                => OnlyExpiredRemoved(ip, limit_type)
           /\ (CheckRateLimit(ip, limit_type) /\ limit_type \in rejected[ip]
                 /\ OldestExpired(ip, limit_type))
                => LetIn(ip, limit_type)
      /\ \A ip \in ClientIPs, limit_type \in DOMAIN limits \cup {"other"} :
           GetRateLimitStatus(ip, limit_type) => OnlyExpiredRemoved(ip, limit_type)
    ]_vars

\* ---------------------------------------------------------------------------
\* the upload endpoint of main.py has answered
UploadAnswered ==
  app = "main" /\ pc = "done" /\ request.endpoint = "verify_paper_pdf"

\* the request is one the validation of the endpoint turns away
RejectedByValidation ==
  \/ request.content_type # "application/pdf"
  \/ request.size > TenMegabytes
  \/ /\ ~processor_extract_text_from_pdf(request.pdf).raised
     /\ TextLen(StripText(processor_extract_text_from_pdf(request.pdf).value)) < 100

\* C28: in the verify-pdf endpoint of main.py a request rejected by the
\* validation of its input (a content type other than application/pdf, a
\* file of more than 10 MB, fewer than 100 characters of extracted text)
\* fails with status 400; the endpoint's own exception handling does not
\* turn the 400 into a 500.
C28_ValidationFailsWith400 ==
  (UploadAnswered /\ RejectedByValidation)
    => response.raised /\ response.value.status = 400

\* ---------------------------------------------------------------------------
\* a generation has answered: generate_paper_content of main.py's service,
\* POST /api/papers/generate of groq_httpx_ultra.py
ContentAnswered ==
  app = "main" /\ pc = "done" /\ request.endpoint = "generate_paper_content"
PaperAnswered ==
  app = "groq_httpx_ultra" /\ pc = "done" /\ request.endpoint = "generate_paper"

\* a text made for the section: its template, or a text of the provider
ProviderTexts == {Strip(o.text) : o \in GenerationOutcomes}
                   \cup {o.content : o \in SectionOutcomes}
MadeFor(section, content) ==
  content \in ({generate_fallback_content(section), get_fallback_content(section)}
                 \cup ProviderTexts)

\* the section has an entry of its own in the dictionary of
\* generate_paper_content: a text, not empty, made for it
OwnEntry(paper_content, section) ==
  /\ section \in DOMAIN paper_content
  /\ "text" \in DOMAIN paper_content[section]
  /\ paper_content[section].text # ""
  /\ MadeFor(section, paper_content[section].text)

\* C29: after the generation of a paper, paper_content["title"] is the title
\* that was requested and every requested section name has an entry of its
\* own that is not empty, for every list of section names (also names such
\* as "title", "custom_sections" or "metadata") and with or without the
\* provider.
C29_TitleAndSectionsKept ==
  /\ ContentAnswered
       => /\ response.value["title"] = Text(request.title)
          /\ \A i \in 1..Len(request.sections) :
               OwnEntry(response.value, request.sections[i])
  /\ PaperAnswered
       => /\ response.value.body.paper_content["title"] = request.title
          /\ \A i \in 1..Len(request.sections) :
               /\ request.sections[i] \in DOMAIN response.value.body.paper_content
               /\ response.value.body.paper_content[request.sections[i]] # ""
               /\ MadeFor(request.sections[i],
                          response.value.body.paper_content[request.sections[i]])

\* ---------------------------------------------------------------------------
\* C30: in generate_paper_content every requested standard or custom section
\* gets exactly one generation_progress entry, the failure of the provider
\* on one section never ends the call or the sections that follow, and a
\* section whose content came from the fallback template is recorded with
\* the status "fallback", so that completed_sections counts the sections the
\* provider made.
C30_FallbackSectionsRecorded ==
  ContentAnswered
    => /\ ~response.raised
       /\ Len(work.generation_progress)
            = Len(request.sections) + Len(request.custom_sections)
       /\ \A i \in 1..Len(work.generation_progress) :
            /\ work.generation_progress[i].section
                 = section_jobs(request.sections, request.custom_sections)[i].name
            /\ ~work.from_provider[i] => work.generation_progress[i].status = "fallback"
       /\ response.value["metadata"].entries.completed_sections
            = Len(SelectSeq(work.from_provider, LAMBDA made : made))

==========================================================================
